---- MODULE Spec2Model ----
(***************************************************************************)
(* A model of the data-freshness and signal-aggregation pipeline:          *)
(*   core/cache.py    Cache       (memory tier + one JSON file per key)    *)
(*   core/sources.py  FeedSource  (rate limiter, mirror rotation, fetches, *)
(*                                 aggregate_feeds)                        *)
(*   core/spike_detector.py  SpikeDetector  (calculate_spike,              *)
(*                                 analyze_keywords)                       *)
(* Strings are sequences of one-character strings, so that the file name   *)
(* of a key is computed character by character as _get_cache_file does.    *)
(* Time is in seconds.                                                     *)
(***************************************************************************)
EXTENDS Integers, Sequences, FiniteSets, TLC

VARIABLES
    now,      \* time.time(), in seconds
    cache,    \* the Cache object: max_entries, _memory_cache, files of cache_dir
    last,     \* history: the last Cache operation, its arguments and its result
    lastSet,  \* history: per key, the most recent Cache.set of that key
    writes,   \* history of SpecCap: the calls of Cache.set, in order, as [key, t];
              \* of SpecMem: the keys whose file was lost
    feed,     \* the FeedSource object: nitter_urls, current_nitter_idx, rate_limit_until
    call,     \* the running or last fetch_* call: its locals, its result, its history
    agg,      \* the running or last aggregate_feeds call, likewise
    spike,    \* the running or last SpikeDetector call, likewise
    race      \* SpecRace: per thread, the running or last Cache.get or Cache.set

vars == <<now, cache, last, lastSet, writes, feed, call, agg, spike, race>>
cacheHist == <<last, lastSet, writes, race>>
feedVars == <<feed, call, agg, spike, race>>

(***************************************************************************)
(* Bounds of the model.                                                    *)
(***************************************************************************)
MaxTime == 2        \* the clock of Spec and SpecCap runs over 0..MaxTime
MaxTTL == 2         \* Spec reads with ttl in 0..MaxTTL
MaxEntries == 2     \* SpecCap constructs Cache(max_entries = n) for n in 1..MaxEntries
MaxWrites == 4      \* SpecCap makes at most MaxWrites calls of Cache.set

\* Cache.__init__: the default of max_entries
DefaultMaxEntries == 200

(***************************************************************************)
(* Python values.  None, and the JSON-serializable values a caller stores: *)
(* lists and tuples.  json.dump writes a tuple as an array, so json.load   *)
(* gives a list back.                                                      *)
(***************************************************************************)
None == [t |-> "none", v |-> <<>>]
PyList(s) == [t |-> "list", v |-> s]
PyTuple(s) == [t |-> "tuple", v |-> s]

json_dump(value) == IF value.t = "tuple" THEN [t |-> "array", v |-> value.v]
                    ELSE IF value.t = "list" THEN [t |-> "array", v |-> value.v]
                    ELSE [t |-> "null", v |-> <<>>]

json_load(text) == IF text.t = "array" THEN PyList(text.v) ELSE None

(***************************************************************************)
(* Characters.  str.isalnum() is true of ASCII letters and digits and also *)
(* of the letters and digits outside ASCII (U00E9 is e-acute, U00B2 is     *)
(* superscript two, U0663 is arabic-indic digit three, U00DF is sharp s).  *)
(***************************************************************************)
AsciiLower == {"a", "b", "c", "d", "e", "f", "g", "h", "i", "j", "k", "l", "m",
               "n", "o", "p", "q", "r", "s", "t", "u", "v", "w", "x", "y", "z"}
AsciiUpper == {"A", "B", "S", "Z"}
AsciiDigit == {"0", "1", "2", "3", "4", "5", "6", "7", "8", "9"}
UnicodeAlnum == {"U00E9", "U00B2", "U0663", "U00DF"}

isalnum(c) == c \in AsciiLower \cup AsciiUpper \cup AsciiDigit \cup UnicodeAlnum

\* Cache._get_cache_file: the file name of a key, without the directory and
\* the ".json" suffix, which are the same for every key.
\* _get_cache_file, every character of the key replaced by "_"
_get_cache_file_blank(key) == [i \in 1..Len(key) |-> "_"]

_get_cache_file(key) ==
    [i \in 1..Len(key) |-> IF isalnum(key[i]) \/ key[i] \in {"-", "_"}
                           THEN key[i] ELSE "_"]

(***************************************************************************)
(* Dictionaries and directories are functions with a finite domain.        *)
(***************************************************************************)
EmptyDict == <<>>
Remove(d, k) == [x \in (DOMAIN d) \ {k} |-> d[x]]
Put(d, k, e) == [x \in (DOMAIN d) \cup {k} |-> IF x = k THEN e ELSE d[x]]

\* A file of cache_dir: what json.load makes of it, and its st_mtime.
\* parses = FALSE is a file json.load or the .get calls raise on.
CacheFile(timestamp, data, mtime) ==
    [parses |-> TRUE, timestamp |-> timestamp, data |-> data, mtime |-> mtime]
CorruptFile(mtime) ==
    [parses |-> FALSE, timestamp |-> 0, data |-> [t |-> "null", v |-> <<>>],
     mtime |-> mtime]

\* A file holding a JSON object with 'timestamp' and no 'data':
\* cache_data.get('data') is None.
NoData == [t |-> "missing", v |-> <<>>]
FileWithoutData(timestamp, mtime) == CacheFile(timestamp, NoData, mtime)

\* Cache.__init__.  files is what cache_dir.glob("*.json") lists, and others
\* the names of the files of cache_dir that "*.json" does not match.
Cache(max_entries, files) ==
    [max_entries |-> max_entries, _memory_cache |-> EmptyDict, files |-> files,
     others |-> {}]

(***************************************************************************)
(* Cache.get.  The result is the returned value and the cache afterwards.  *)
(* get_file is the file tier of it (cache.py lines 46 to 67).              *)
(***************************************************************************)
\* get_file, leaving an expired or unreadable file in place
get_file_kept(c, key, ttl, t) ==
    LET cache_file == _get_cache_file(key) IN
    IF cache_file \notin DOMAIN c.files
    THEN [ret |-> None, cache |-> c]
    ELSE LET cache_data == c.files[cache_file] IN
         IF cache_data.parses /\ t - cache_data.timestamp < ttl
         THEN LET data == json_load(cache_data.data) IN
              [ret |-> data,
               cache |-> [c EXCEPT !._memory_cache =
                             Put(@, key, [data |-> data,
                                          timestamp |-> cache_data.timestamp])]]
         ELSE [ret |-> None, cache |-> c]

\* get_file, promoting a fresh file entry with the time of the promotion
get_file_restamped(c, key, ttl, t) ==
    LET cache_file == _get_cache_file(key) IN
    IF cache_file \notin DOMAIN c.files
    THEN [ret |-> None, cache |-> c]
    ELSE LET cache_data == c.files[cache_file] IN
         IF cache_data.parses /\ t - cache_data.timestamp < ttl
         THEN LET data == json_load(cache_data.data) IN
              [ret |-> data,
               cache |-> [c EXCEPT !._memory_cache =
                             Put(@, key, [data |-> data, timestamp |-> t])]]
         ELSE [ret |-> None,
               cache |-> [c EXCEPT !.files = Remove(@, cache_file)]]

get_file(c, key, ttl, t) ==
    LET cache_file == _get_cache_file(key) IN
    IF cache_file \notin DOMAIN c.files
    THEN [ret |-> None, cache |-> c]
    ELSE LET cache_data == c.files[cache_file] IN
         IF cache_data.parses /\ t - cache_data.timestamp < ttl
         THEN LET data == json_load(cache_data.data) IN
              [ret |-> data,
               cache |-> [c EXCEPT !._memory_cache =
                             Put(@, key, [data |-> data,
                                          timestamp |-> cache_data.timestamp])]]
         ELSE \* expired, or the except branch: remove the file
              [ret |-> None,
               cache |-> [c EXCEPT !.files = Remove(@, cache_file)]]

\* get, reading the file tier without looking at the memory tier
get_memory_skipped(c, key, ttl, t) == get_file(c, key, ttl, t)

\* get, with a memory entry still valid when now - timestamp = ttl
get_inclusive(c, key, ttl, t) ==
    IF key \in DOMAIN c._memory_cache
    THEN IF t - c._memory_cache[key].timestamp <= ttl
         THEN [ret |-> c._memory_cache[key].data, cache |-> c]
         ELSE get_file([c EXCEPT !._memory_cache = Remove(@, key)], key, ttl, t)
    ELSE get_file(c, key, ttl, t)

get(c, key, ttl, t) ==
    IF key \in DOMAIN c._memory_cache
    THEN IF t - c._memory_cache[key].timestamp < ttl
         THEN [ret |-> c._memory_cache[key].data, cache |-> c]
         ELSE get_file([c EXCEPT !._memory_cache = Remove(@, key)], key, ttl, t)
    ELSE get_file(c, key, ttl, t)

(***************************************************************************)
(* Cache._cleanup.  The files are sorted by st_mtime and the first         *)
(* len - max_entries of them are removed.  The sort is stable and glob     *)
(* lists the directory in no particular order, so among files of equal     *)
(* st_mtime any may come first: the result is one of a set of directories. *)
(***************************************************************************)
\* _cleanup, sorting the newest files first
_cleanup_newest_first(c) ==
    LET cache_files == DOMAIN c.files
        excess == Cardinality(cache_files) - c.max_entries
    IN  IF excess > 0
        THEN { [c EXCEPT !.files = [f \in cache_files \ removed |-> c.files[f]]] :
                 removed \in { r \in SUBSET cache_files :
                                 /\ Cardinality(r) = excess
                                 /\ \A f \in r : \A g \in cache_files \ r :
                                        c.files[f].mtime >= c.files[g].mtime } }
        ELSE {c}

\* _cleanup, removing the memory entries of the removed files as well
_cleanup_memory_too(c) ==
    LET cache_files == DOMAIN c.files
        excess == Cardinality(cache_files) - c.max_entries
    IN  IF excess > 0
        THEN { [c EXCEPT !.files = [f \in cache_files \ removed |-> c.files[f]],
                         !._memory_cache =
                            [k \in { x \in DOMAIN c._memory_cache :
                                       _get_cache_file(x) \notin removed } |->
                                c._memory_cache[k]]] :
                 removed \in { r \in SUBSET cache_files :
                                 /\ Cardinality(r) = excess
                                 /\ \A f \in r : \A g \in cache_files \ r :
                                        c.files[f].mtime <= c.files[g].mtime } }
        ELSE {c}

_cleanup(c) ==
    LET cache_files == DOMAIN c.files
        excess == Cardinality(cache_files) - c.max_entries
    IN  IF excess > 0
        THEN { [c EXCEPT !.files = [f \in cache_files \ removed |-> c.files[f]]] :
                 removed \in { r \in SUBSET cache_files :
                                 /\ Cardinality(r) = excess
                                 /\ \A f \in r : \A g \in cache_files \ r :
                                        c.files[f].mtime <= c.files[g].mtime } }
        ELSE {c}

(***************************************************************************)
(* Cache.set.  The set of caches it may leave (see _cleanup).              *)
(***************************************************************************)
set(c, key, value, t) ==
    LET timestamp == t
        stored == [c EXCEPT !._memory_cache =
                               Put(@, key, [data |-> value, timestamp |-> timestamp]),
                            !.files =
                               Put(@, _get_cache_file(key),
                                   CacheFile(timestamp, json_dump(value), t))]
    IN  _cleanup(stored)

\* Cache.delete, leaving the memory tier as it is
delete_file_only(c, key) ==
    [c EXCEPT !.files = Remove(@, _get_cache_file(key))]

\* Cache.delete
delete(c, key) ==
    [c EXCEPT !._memory_cache = Remove(@, key),
              !.files = Remove(@, _get_cache_file(key))]

\* Cache.clear
clear(c) == [c EXCEPT !._memory_cache = EmptyDict, !.files = EmptyDict]

(***************************************************************************)
(* Cache.get and Cache.set statement by statement, for callers on several  *)
(* threads.  A thread's frame holds the arguments and the locals of its    *)
(* call: pc is the statement it is at, timestamp and read (the file as     *)
(* open and json.load found it) its locals, ret the value returned.        *)
(* Between open(cache_file, 'w') and the end of the with block the file is *)
(* empty or holds the beginning of the text: json.load raises on it.       *)
(* unlink removes the name of the file and leaves a writer that has it     *)
(* open with a file no name leads to (orphan): what it writes is lost.     *)
(* Two writers that have the file open both write from its beginning: the  *)
(* text of the second replaces the text of the first, or only the          *)
(* beginning of it when the first is the longer, and that does not parse.  *)
(***************************************************************************)
IdleFrame ==
    [pc |-> "idle", op |-> "", key |-> <<>>, value |-> None, ttl |-> 0,
     timestamp |-> 0, read |-> <<>>, ret |-> None, began |-> 0,
     orphan |-> FALSE, unlinked |-> FALSE]

\* set, line 77: timestamp = time.time()
set_timestamp(fr, t) == [fr EXCEPT !.timestamp = t, !.pc = "memory"]

\* set, line 80: self._memory_cache[key] = (value, timestamp)
set_memory(c, fr) ==
    [c EXCEPT !._memory_cache =
                 Put(@, fr.key, [data |-> fr.value, timestamp |-> fr.timestamp])]

\* set, line 89: open(cache_file, 'w') creates the file or truncates it
set_open(c, fr, t) ==
    [c EXCEPT !.files = Put(@, _get_cache_file(fr.key), CorruptFile(t))]

\* set, lines 90 to 93: json.dump, the end of the with block, _cleanup
set_dump(c, fr, t) ==
    LET cache_file == _get_cache_file(fr.key)
        whole == [c EXCEPT !.files =
                     Put(@, cache_file,
                         CacheFile(fr.timestamp, json_dump(fr.value), t))]
        mixed == [c EXCEPT !.files = Put(@, cache_file, CorruptFile(t))]
    IN  IF fr.orphan
        THEN _cleanup(c)
        ELSE IF cache_file \in DOMAIN c.files /\ c.files[cache_file].parses
             THEN _cleanup(whole) \cup _cleanup(mixed)
             ELSE _cleanup(whole)

\* get, lines 39 to 42: the memory entry, if fresh; where the call goes on
get_memory(c, fr, t) ==
    IF fr.key \in DOMAIN c._memory_cache
    THEN IF t - c._memory_cache[fr.key].timestamp < fr.ttl
         THEN [fr EXCEPT !.pc = "done", !.ret = c._memory_cache[fr.key].data]
         ELSE [fr EXCEPT !.pc = "del"]
    ELSE [fr EXCEPT !.pc = "exists"]

\* get, lines 47 to 49: cache_file.exists()
get_exists(c, fr) ==
    IF _get_cache_file(fr.key) \in DOMAIN c.files
    THEN [fr EXCEPT !.pc = "load"]
    ELSE [fr EXCEPT !.pc = "done", !.ret = None]

\* get, lines 52 to 53: open and json.load; a missing file and a file that
\* does not parse raise
get_load(c, fr) ==
    LET cache_file == _get_cache_file(fr.key) IN
    IF cache_file \in DOMAIN c.files /\ c.files[cache_file].parses
    THEN [fr EXCEPT !.pc = "judge", !.read = <<c.files[cache_file]>>]
    ELSE [fr EXCEPT !.pc = "except",
                    !.read = IF cache_file \in DOMAIN c.files
                             THEN <<c.files[cache_file]>> ELSE <<>>]

\* get, lines 55 to 63: the frame and the cache after them
get_judge(c, fr, t) ==
    LET cache_data == fr.read[1] IN
    IF t - cache_data.timestamp < fr.ttl
    THEN [frame |-> [fr EXCEPT !.pc = "done", !.ret = json_load(cache_data.data)],
          cache |-> [c EXCEPT !._memory_cache =
                        Put(@, fr.key, [data |-> json_load(cache_data.data),
                                        timestamp |-> cache_data.timestamp])]]
    ELSE [frame |-> [fr EXCEPT !.pc = "done", !.ret = None,
                               !.unlinked = _get_cache_file(fr.key) \in DOMAIN c.files],
          cache |-> [c EXCEPT !.files = Remove(@, _get_cache_file(fr.key))]]

\* get, lines 64 to 67: the except clause
get_except(c, fr) ==
    [frame |-> [fr EXCEPT !.pc = "done", !.ret = None,
                          !.unlinked = _get_cache_file(fr.key) \in DOMAIN c.files],
     cache |-> [c EXCEPT !.files = Remove(@, _get_cache_file(fr.key))]]

\* the frames after the frame of thread th became fr: the writers of the
\* file that fr unlinked keep a file without a name
unlink_orphans(frames, th, fr) ==
    [o \in DOMAIN frames |->
        IF o = th THEN fr
        ELSE IF fr.unlinked /\ frames[o].pc = "dump" /\ frames[o].key = fr.key
             THEN [frames[o] EXCEPT !.orphan = TRUE]
             ELSE frames[o]]

Threads == {1, 2}
IdleRace == [th \in Threads |-> IdleFrame]

(***************************************************************************)
(* core/sources.py: FeedSource.                                            *)
(***************************************************************************)
CACHE_TTL == 1800           \* cache.get(cache_key, ttl=1800)
RATE_LIMIT_DURATION == 300  \* _set_rate_limit(source, duration = 300)
NITTER_LIMIT == 10          \* feed.entries[:10]
NEWS_LIMIT == 5             \* feed.entries[:5] of fetch_google_news
RSS_LIMIT == 5              \* feed.entries[:5] of fetch_rss_feed
BACKOFF == 1                \* time.sleep(1)

\* the mirrors of the default configuration
ConfiguredMirrors == <<"https://nitter.net", "https://nitter.it", "https://nitter.poast.org">>

\* FeedSource.__init__
FeedSource(nitter_urls) ==
    [nitter_urls |-> nitter_urls, current_nitter_idx |-> 0,
     rate_limit_until |-> EmptyDict]

\* Python indexes nitter_urls from 0
_get_nitter_url(f) ==
    IF f.nitter_urls = <<>> THEN "https://nitter.net"
    ELSE f.nitter_urls[f.current_nitter_idx + 1]

\* _rotate_nitter, never moving the pointer
_rotate_nitter_stuck(f) == f

\* _rotate_nitter, without the modulo
_rotate_nitter_unwrapped(f) ==
    IF Len(f.nitter_urls) > 1
    THEN [f EXCEPT !.current_nitter_idx = @ + 1]
    ELSE f

_rotate_nitter(f) ==
    IF Len(f.nitter_urls) > 1
    THEN [f EXCEPT !.current_nitter_idx = (@ + 1) % Len(f.nitter_urls)]
    ELSE f

\* _is_rate_limited, with a deadline still in force at the deadline itself
_is_rate_limited_inclusive(f, source, t) ==
    IF source \in DOMAIN f.rate_limit_until
    THEN IF t <= f.rate_limit_until[source]
         THEN [ret |-> TRUE, feed |-> f]
         ELSE [ret |-> FALSE,
               feed |-> [f EXCEPT !.rate_limit_until = Remove(@, source)]]
    ELSE [ret |-> FALSE, feed |-> f]

\* _is_rate_limited: the answer and the FeedSource afterwards
_is_rate_limited(f, source, t) ==
    IF source \in DOMAIN f.rate_limit_until
    THEN IF t < f.rate_limit_until[source]
         THEN [ret |-> TRUE, feed |-> f]
         ELSE [ret |-> FALSE,
               feed |-> [f EXCEPT !.rate_limit_until = Remove(@, source)]]
    ELSE [ret |-> FALSE, feed |-> f]

\* _set_rate_limit, recording the deadline for the mirrors' source as well
_set_rate_limit_shared(f, source, duration, t) ==
    [f EXCEPT !.rate_limit_until = Put(Put(@, source, t + duration),
                                       <<"nitter">>, t + duration)]

_set_rate_limit(f, source, duration, t) ==
    [f EXCEPT !.rate_limit_until = Put(@, source, t + duration)]

\* the names of the rate-limited sources and the prefixes of the cache keys
Nitter == <<"nitter">>
GoogleNews == <<"google_news">>
RssPrefix == <<"r", "s", "s", "_">>
NitterKeyPrefix == <<"n", "i", "t", "t", "e", "r", "_", "s", "e", "a", "r", "c", "h", "_">>
GoogleKeyPrefix == <<"g", "o", "o", "g", "l", "e", "_", "n", "e", "w", "s", "_">>

(***************************************************************************)
(* What the network gives to one client.get: a 429 response, a response    *)
(* that feedparser parses into entries (none, for a payload it cannot      *)
(* read), an httpx.HTTPError (transport error, timeout, raise_for_status), *)
(* or another exception.                                                   *)
(***************************************************************************)
DigitChars == <<"0", "1", "2", "3", "4", "5", "6", "7", "8", "9">>
Numeral(i) == IF i < 10 THEN <<DigitChars[i + 1]>>
              ELSE <<DigitChars[(i \div 10) + 1], DigitChars[(i % 10) + 1]>>

\* entry i of the feed that source fn serves for query
FeedEntry(fn, query, i) ==
    [title |-> query \o <<" ">> \o Numeral(i),
     link |-> <<fn>> \o Numeral(i),
     published |-> IF i % 2 = 1 THEN <<"2", "0", "2", "4", "-">> \o Numeral(i)
                   ELSE <<>>]
FeedEntries(fn, query, n) == [i \in 1..n |-> FeedEntry(fn, query, i)]

EntryCounts == {0, NITTER_LIMIT + 1}

Responses(fn, query) ==
    { [kind |-> "429", entries |-> <<>>],
      [kind |-> "HTTPError", entries |-> <<>>],
      [kind |-> "Exception", entries |-> <<>>] }
    \cup { [kind |-> "ok", entries |-> FeedEntries(fn, query, n)] : n \in EntryCounts }

\* The except clause that handles an exception raised in the try block of a
\* fetch: "except httpx.HTTPError", then "except Exception".
\* except_clause, without the "except Exception" clause
except_clause_http_only(exc) ==
    IF exc = "HTTPError" THEN "HTTPError" ELSE "unhandled"

except_clause(exc) ==
    IF exc = "HTTPError" THEN "HTTPError"
    ELSE IF exc \in {"HTTPError", "Exception"} THEN "Exception"
    ELSE "unhandled"

\* feed.entries[:limit] as item dictionaries
\* Items, of feed.entries without the slice
Items_unsliced(entries, limit, source) ==
    [i \in 1..Len(entries) |->
        [title |-> entries[i].title, link |-> entries[i].link,
         published |-> entries[i].published, source |-> source]]

Items(entries, limit, source) ==
    [i \in 1..(IF Len(entries) < limit THEN Len(entries) ELSE limit) |->
        [title |-> entries[i].title, link |-> entries[i].link,
         published |-> entries[i].published, source |-> source]]

(***************************************************************************)
(* The frame of a fetch_* call.  pc: "loop" is the head of the while loop  *)
(* of fetch_nitter_search, "request" the client.get of the other two,      *)
(* "done" a call that has returned ret, "raised" one that an exception     *)
(* left.  History: n (the number of the call), was_miss (cache.get gave    *)
(* None), was_limited (the source had a cooldown deadline in the future    *)
(* when the call began), had_deadline (the source had a cooldown deadline, *)
(* past or future, when it began), start_idx (current_nitter_idx when it   *)
(* began),                                                                 *)
(* contacted (the URLs client.get was called with), answers (what the      *)
(* network answered), wrote (cache.set was called), slept (time.sleep was  *)
(* called).                                                                *)
(***************************************************************************)
IdleCall ==
    [pc |-> "idle", fn |-> "", query |-> <<>>, source_name |-> "",
     cache_key |-> <<>>, source |-> <<>>,
     items |-> <<>>, attempts |-> 0, max_attempts |-> 0, ret |-> <<>>,
     n |-> 0, was_miss |-> FALSE, was_limited |-> FALSE, had_deadline |-> FALSE,
     start_idx |-> 0,
     contacted |-> <<>>, answers |-> <<>>, wrote |-> FALSE, slept |-> FALSE]

World == [now |-> now, cache |-> cache, feed |-> feed, call |-> call]

\* the times of SpecFeed: around the cooldown and around the cache ttl
FeedTimes == {0, RATE_LIMIT_DURATION - 1, RATE_LIMIT_DURATION,
              CACHE_TTL, CACHE_TTL + RATE_LIMIT_DURATION}

\* "if items: self.cache.set(cache_key, items)" and "return items"
\* return_items, caching whatever the result is
return_items_always_cached(w) ==
    { [w EXCEPT !.cache = c,
                !.call = [@ EXCEPT !.pc = "done", !.ret = w.call.items,
                                   !.wrote = TRUE]] :
        c \in set(w.cache, w.call.cache_key, PyList(w.call.items), w.now) }

return_items(w) ==
    IF w.call.items # <<>>
    THEN { [w EXCEPT !.cache = c,
                     !.call = [@ EXCEPT !.pc = "done", !.ret = w.call.items,
                                        !.wrote = TRUE]] :
             c \in set(w.cache, w.call.cache_key, PyList(w.call.items), w.now) }
    ELSE { [w EXCEPT !.call = [@ EXCEPT !.pc = "done", !.ret = <<>>]] }

\* The start of every fetch: the cache check, then the rate-limit check.
\* first is the pc of a call that passes both.
\* begin_fetch, without the rate-limit check
begin_fetch_unchecked(w, fn, query, cache_key, source, first) ==
    LET cached == get(w.cache, cache_key, CACHE_TTL, w.now)
        frame == [IdleCall EXCEPT
                    !.n = w.call.n + 1, !.fn = fn, !.query = query,
                    !.cache_key = cache_key, !.source = source,
                    !.start_idx = w.feed.current_nitter_idx,
                    !.was_miss = (cached.ret = None),
                    !.had_deadline = source \in DOMAIN w.feed.rate_limit_until,
                    !.was_limited = /\ source \in DOMAIN w.feed.rate_limit_until
                                    /\ w.now < w.feed.rate_limit_until[source]]
    IN  IF cached.ret # None
        THEN [w EXCEPT !.cache = cached.cache,
                       !.call = [frame EXCEPT !.pc = "done", !.ret = cached.ret.v]]
        ELSE [w EXCEPT !.cache = cached.cache,
                       !.call = [frame EXCEPT !.pc = first,
                                              !.max_attempts = Len(w.feed.nitter_urls)]]

\* begin_fetch, with the rate-limit check before the cache check
begin_fetch_limiter_first(w, fn, query, cache_key, source, first) ==
    LET cached == get(w.cache, cache_key, CACHE_TTL, w.now)
        limited == _is_rate_limited(w.feed, source, w.now)
        frame == [IdleCall EXCEPT
                    !.n = w.call.n + 1, !.fn = fn, !.query = query,
                    !.cache_key = cache_key, !.source = source,
                    !.start_idx = w.feed.current_nitter_idx,
                    !.was_miss = (cached.ret = None),
                    !.had_deadline = source \in DOMAIN w.feed.rate_limit_until,
                    !.was_limited = /\ source \in DOMAIN w.feed.rate_limit_until
                                    /\ w.now < w.feed.rate_limit_until[source]]
    IN  IF limited.ret
        THEN [w EXCEPT !.call = [frame EXCEPT !.pc = "done", !.ret = <<>>]]
        ELSE IF cached.ret # None
        THEN [w EXCEPT !.cache = cached.cache, !.feed = limited.feed,
                       !.call = [frame EXCEPT !.pc = "done", !.ret = cached.ret.v]]
        ELSE [w EXCEPT !.cache = cached.cache, !.feed = limited.feed,
                       !.call = [frame EXCEPT !.pc = first,
                                              !.max_attempts = Len(w.feed.nitter_urls)]]

begin_fetch(w, fn, query, cache_key, source, first) ==
    LET cached == get(w.cache, cache_key, CACHE_TTL, w.now)
        limited == _is_rate_limited(w.feed, source, w.now)
        frame == [IdleCall EXCEPT
                    !.n = w.call.n + 1, !.fn = fn, !.query = query,
                    !.cache_key = cache_key, !.source = source,
                    !.start_idx = w.feed.current_nitter_idx,
                    !.was_miss = (cached.ret = None),
                    !.had_deadline = source \in DOMAIN w.feed.rate_limit_until,
                    !.was_limited = /\ source \in DOMAIN w.feed.rate_limit_until
                                    /\ w.now < w.feed.rate_limit_until[source]]
    IN  IF cached.ret # None
        THEN [w EXCEPT !.cache = cached.cache,
                       !.call = [frame EXCEPT !.pc = "done", !.ret = cached.ret.v]]
        ELSE IF limited.ret
        THEN [w EXCEPT !.cache = cached.cache, !.feed = limited.feed,
                       !.call = [frame EXCEPT !.pc = "done", !.ret = <<>>]]
        ELSE [w EXCEPT !.cache = cached.cache, !.feed = limited.feed,
                       !.call = [frame EXCEPT !.pc = first,
                                              !.max_attempts = Len(w.feed.nitter_urls)]]

\* fetch_nitter_search, starting every call at the first mirror
fetch_nitter_search_reset(w, query) ==
    LET begun == begin_fetch(w, "fetch_nitter_search", query,
                             NitterKeyPrefix \o query, Nitter, "loop")
    IN  [begun EXCEPT !.feed.current_nitter_idx = 0]

\* fetch_nitter_search, making one attempt when no mirror is configured
fetch_nitter_search_one_try(w, query) ==
    LET begun == begin_fetch(w, "fetch_nitter_search", query,
                             NitterKeyPrefix \o query, Nitter, "loop")
    IN  IF begun.call.pc = "loop" /\ begun.call.max_attempts = 0
        THEN [begun EXCEPT !.call.max_attempts = 1]
        ELSE begun

\* fetch_nitter_search, up to the while loop
fetch_nitter_search(w, query) ==
    begin_fetch(w, "fetch_nitter_search", query, NitterKeyPrefix \o query, Nitter, "loop")

\* One iteration of the while loop of fetch_nitter_search, the network
\* answering with response.  The set of worlds it may lead to.
\* nitter_attempt, not counting an attempt that was answered 429
nitter_attempt_uncounted(w, response) ==
    LET f == w.feed
        sent == [w EXCEPT !.call.contacted = Append(@, _get_nitter_url(f)),
                          !.call.answers = Append(@, response.kind)]
    IN  IF response.kind = "429"
        THEN { [sent EXCEPT !.feed = _rotate_nitter(
                                _set_rate_limit(f, Nitter, RATE_LIMIT_DURATION, w.now))] }
        ELSE IF response.kind = "ok"
        THEN return_items([sent EXCEPT !.call.items =
                              @ \o Items(response.entries, NITTER_LIMIT, "Twitter/X")])
        ELSE IF except_clause(response.kind) = "HTTPError"
        THEN { [sent EXCEPT !.feed = _rotate_nitter(f),
                            !.call.attempts = @ + 1, !.call.slept = TRUE,
                            !.now = t] :
                 t \in { u \in FeedTimes : u >= w.now + BACKOFF } }
        ELSE IF except_clause(response.kind) = "Exception"
        THEN { [sent EXCEPT !.feed = _rotate_nitter(f), !.call.attempts = @ + 1] }
        ELSE { [sent EXCEPT !.call.pc = "raised"] }

\* nitter_attempt, a successful answer ending the cooldown of the mirrors
nitter_attempt_forgiving(w, response) ==
    LET f == w.feed
        sent == [w EXCEPT !.call.contacted = Append(@, _get_nitter_url(f)),
                          !.call.answers = Append(@, response.kind)]
    IN  IF response.kind = "429"
        THEN { [sent EXCEPT !.feed = _rotate_nitter(
                                _set_rate_limit(f, Nitter, RATE_LIMIT_DURATION, w.now)),
                            !.call.attempts = @ + 1] }
        ELSE IF response.kind = "ok"
        THEN return_items([sent EXCEPT
                              !.feed.rate_limit_until = Remove(@, Nitter),
                              !.call.items =
                                 @ \o Items(response.entries, NITTER_LIMIT, "Twitter/X")])
        ELSE IF except_clause(response.kind) = "HTTPError"
        THEN { [sent EXCEPT !.feed = _rotate_nitter(f),
                            !.call.attempts = @ + 1, !.call.slept = TRUE,
                            !.now = t] :
                 t \in { u \in FeedTimes : u >= w.now + BACKOFF } }
        ELSE IF except_clause(response.kind) = "Exception"
        THEN { [sent EXCEPT !.feed = _rotate_nitter(f), !.call.attempts = @ + 1] }
        ELSE { [sent EXCEPT !.call.pc = "raised"] }

nitter_attempt(w, response) ==
    LET f == w.feed
        sent == [w EXCEPT !.call.contacted = Append(@, _get_nitter_url(f)),
                          !.call.answers = Append(@, response.kind)]
    IN  IF response.kind = "429"
        THEN { [sent EXCEPT !.feed = _rotate_nitter(
                                _set_rate_limit(f, Nitter, RATE_LIMIT_DURATION, w.now)),
                            !.call.attempts = @ + 1] }
        ELSE IF response.kind = "ok"
        THEN return_items([sent EXCEPT !.call.items =
                              @ \o Items(response.entries, NITTER_LIMIT, "Twitter/X")])
        ELSE IF except_clause(response.kind) = "HTTPError"
        THEN { [sent EXCEPT !.feed = _rotate_nitter(f),
                            !.call.attempts = @ + 1, !.call.slept = TRUE,
                            !.now = t] :
                 t \in { u \in FeedTimes : u >= w.now + BACKOFF } }
        ELSE IF except_clause(response.kind) = "Exception"
        THEN { [sent EXCEPT !.feed = _rotate_nitter(f), !.call.attempts = @ + 1] }
        ELSE { [sent EXCEPT !.call.pc = "raised"] }

\* fetch_google_news and fetch_rss_feed, up to client.get
fetch_google_news(w, query) ==
    begin_fetch(w, "fetch_google_news", query, GoogleKeyPrefix \o query, GoogleNews,
                "request")

fetch_rss_feed(w, url, source_name) ==
    LET begun == begin_fetch(w, "fetch_rss_feed", url, RssPrefix \o url,
                             RssPrefix \o url, "request")
    IN  [begun EXCEPT !.call.source_name = source_name]

\* fetch_google_news and fetch_rss_feed from client.get on
single_request(w, response, limit, source_name) ==
    LET sent == [w EXCEPT !.call.contacted = Append(@, w.call.fn),
                          !.call.answers = Append(@, response.kind)] IN
    IF response.kind = "429"
    THEN { [sent EXCEPT !.feed = _set_rate_limit(w.feed, w.call.source,
                                                 RATE_LIMIT_DURATION, w.now),
                        !.call.pc = "done", !.call.ret = <<>>] }
    ELSE IF response.kind = "ok"
    THEN return_items([sent EXCEPT !.call.items =
                          Items(response.entries, limit, source_name)])
    ELSE IF except_clause(response.kind) \in {"HTTPError", "Exception"}
    THEN return_items(sent)
    ELSE { [sent EXCEPT !.call.pc = "raised"] }

(***************************************************************************)
(* aggregate_feeds.  Strings compare by code point, as Python's str does.  *)
(***************************************************************************)
KEYWORD_LIMIT == 5
TOP_LIMIT == 20

\* the characters of the model in code point order
CharOrder ==
    <<" ", "-", "/", "0", "1", "2", "3", "4", "5", "6", "7", "8", "9", ":",
      "A", "B", "S", "Z", "_", "a", "b", "c", "d", "e", "f", "g", "h", "i", "j", "k",
      "l", "m", "n", "o", "p", "q", "r", "s", "t", "u", "v", "w", "x", "y", "z",
      "U00B2", "U00DF", "U00E9", "U0663">>
ord(c) == CHOOSE i \in 1..Len(CharOrder) : CharOrder[i] = c

\* a < b for two str
RECURSIVE str_lt(_, _)
str_lt(a, b) ==
    IF b = <<>> THEN FALSE
    ELSE IF a = <<>> THEN TRUE
    ELSE IF Head(a) # Head(b) THEN ord(Head(a)) < ord(Head(b))
    ELSE str_lt(Tail(a), Tail(b))

\* str.lower(): the lower case letter of an upper case one; sharp s and the
\* other characters of the model are their own lower case
lower(text) ==
    [i \in 1..Len(text) |->
        CASE text[i] = "A" -> "a" [] text[i] = "B" -> "b" [] text[i] = "S" -> "s"
          [] text[i] = "Z" -> "z" [] OTHER -> text[i]]

\* "for keyword in keywords[:5]"
\* fan_out, without the slice
fan_out_all(keywords) == keywords

fan_out(keywords) ==
    SubSeq(keywords, 1, IF Len(keywords) < KEYWORD_LIMIT THEN Len(keywords)
                        ELSE KEYWORD_LIMIT)

\* the deduplication loop: unique_items and seen_titles after all_items
\* unique_items, comparing the titles as they are
RECURSIVE unique_items_as_written(_, _, _)
unique_items_as_written(all_items, seen_titles, unique) ==
    IF all_items = <<>> THEN unique
    ELSE LET item == Head(all_items)
         IN  IF item.title \notin seen_titles
             THEN unique_items_as_written(Tail(all_items), seen_titles \cup {item.title},
                                          Append(unique, item))
             ELSE unique_items_as_written(Tail(all_items), seen_titles, unique)

RECURSIVE unique_items(_, _, _)
unique_items(all_items, seen_titles, unique) ==
    IF all_items = <<>> THEN unique
    ELSE LET item == Head(all_items)
             title_lower == lower(item.title)
         IN  IF title_lower \notin seen_titles
             THEN unique_items(Tail(all_items), seen_titles \cup {title_lower},
                               Append(unique, item))
             ELSE unique_items(Tail(all_items), seen_titles, unique)

\* list.sort(key = published, reverse = True): stable, so an item goes
\* behind the items whose key is greater than or equal to its own
\* insert_reverse, for a sort without reverse = True
RECURSIVE insert_forward(_, _)
insert_forward(sorted, item) ==
    IF sorted = <<>> THEN <<item>>
    ELSE IF str_lt(item.published, Head(sorted).published)
    THEN <<item>> \o sorted
    ELSE <<Head(sorted)>> \o insert_forward(Tail(sorted), item)

RECURSIVE insert_reverse(_, _)
insert_reverse(sorted, item) ==
    IF sorted = <<>> THEN <<item>>
    ELSE IF str_lt(Head(sorted).published, item.published)
    THEN <<item>> \o sorted
    ELSE <<Head(sorted)>> \o insert_reverse(Tail(sorted), item)

RECURSIVE sort_reverse(_, _)
sort_reverse(items, sorted) ==
    IF items = <<>> THEN sorted
    ELSE sort_reverse(Tail(items), insert_reverse(sorted, Head(items)))

\* aggregate_feeds after the for loop
ranked(all_items) ==
    LET sorted == sort_reverse(unique_items(all_items, {}, <<>>), <<>>)
    IN  SubSeq(sorted, 1, IF Len(sorted) < TOP_LIMIT THEN Len(sorted) ELSE TOP_LIMIT)

(***************************************************************************)
(* The frame of an aggregate_feeds call.  pc: "for" is the head of the for *)
(* loop, i the position of the next keyword; "tweets" and "news" are the   *)
(* calls of fetch_nitter_search and fetch_google_news; "done" a call that  *)
(* has returned ret, "raised" one that an exception left.  History: log,   *)
(* one record for each fetch that returned: its function, its query and    *)
(* what it returned.                                                       *)
(***************************************************************************)
IdleAgg ==
    [pc |-> "idle", keywords |-> <<>>, i |-> 0, all_items |-> <<>>, ret |-> <<>>,
     log |-> <<>>]

LogEntry(c) ==
    [fn |-> c.fn, query |-> c.query, ret |-> c.ret]

(***************************************************************************)
(* Python's float: an IEEE 754 double, sign * m * 2^e with a mantissa m of *)
(* MantissaBits bits (or sign = 0 and m = 0), every operation rounding its *)
(* exact result to the nearest double, ties to even.  The mantissa is a    *)
(* natural number written in limbs of base LimbBase, least limb first,     *)
(* without leading zero limbs.  The exponent range is not modelled: the    *)
(* numbers of calculate_spike are far from overflow and underflow.         *)
(***************************************************************************)
MantissaBits == 53
LimbBase == 268435456      \* 2^28: sums of two limbs stay within TLC's integers

big(n) == IF n = 0 THEN <<>> ELSE <<n>>

RECURSIVE big_trim(_)
big_trim(a) ==
    IF a = <<>> THEN a
    ELSE IF a[Len(a)] = 0 THEN big_trim(SubSeq(a, 1, Len(a) - 1)) ELSE a

RECURSIVE big_add_carry(_, _, _)
big_add_carry(a, b, carry) ==
    IF a = <<>> /\ b = <<>> THEN big(carry)
    ELSE LET t == (IF a = <<>> THEN 0 ELSE Head(a)) + (IF b = <<>> THEN 0 ELSE Head(b))
                  + carry
         IN  <<t % LimbBase>> \o big_add_carry(IF a = <<>> THEN a ELSE Tail(a),
                                               IF b = <<>> THEN b ELSE Tail(b),
                                               t \div LimbBase)
big_add(a, b) == big_add_carry(a, b, 0)

\* a - b for a >= b
RECURSIVE big_sub_borrow(_, _, _)
big_sub_borrow(a, b, borrow) ==
    IF a = <<>> THEN <<>>
    ELSE LET t == Head(a) - (IF b = <<>> THEN 0 ELSE Head(b)) - borrow
         IN  <<IF t < 0 THEN t + LimbBase ELSE t>>
             \o big_sub_borrow(Tail(a), IF b = <<>> THEN b ELSE Tail(b),
                               IF t < 0 THEN 1 ELSE 0)
big_sub(a, b) == big_trim(big_sub_borrow(a, b, 0))

RECURSIVE big_lt_from(_, _, _)
big_lt_from(a, b, i) ==
    IF i = 0 THEN FALSE
    ELSE IF a[i] # b[i] THEN a[i] < b[i]
    ELSE big_lt_from(a, b, i - 1)
big_lt(a, b) == IF Len(a) # Len(b) THEN Len(a) < Len(b) ELSE big_lt_from(a, b, Len(a))

big_odd(a) == a # <<>> /\ a[1] % 2 = 1
big_half(a) ==
    big_trim([i \in 1..Len(a) |->
                (a[i] \div 2) + (IF i < Len(a) /\ a[i + 1] % 2 = 1
                                 THEN LimbBase \div 2 ELSE 0)])

\* (the loops below take the length of each intermediate result, so that it
\* is computed in its turn and not all at the end)
RECURSIVE big_shl(_, _)
big_shl(a, k) ==
    IF k = 0 THEN a
    ELSE LET twice == big_add(a, a)
         IN  IF Len(twice) >= 0 THEN big_shl(twice, k - 1) ELSE <<>>

RECURSIVE big_mul(_, _)
big_mul(a, k) ==
    IF k = 0 THEN <<>>
    ELSE LET twice == big_add(a, a)
             h == IF Len(twice) >= 0 THEN big_mul(twice, k \div 2) ELSE <<>>
         IN  IF k % 2 = 1 THEN big_add(h, a) ELSE h

RECURSIVE bit_length(_)
bit_length(n) == IF n = 0 THEN 0 ELSE 1 + bit_length(n \div 2)
big_bits(a) == IF a = <<>> THEN 0 ELSE 28 * (Len(a) - 1) + bit_length(a[Len(a)])

FloatZero == [sign |-> 0, m |-> <<>>, e |-> 0]

\* k shifts to the right, keeping the last bit shifted out (guard) and
\* whether any bit before it was set (sticky)
RECURSIVE shift_out(_, _, _, _)
shift_out(m, k, guard, sticky) ==
    IF k = 0 THEN [m |-> m, guard |-> guard, sticky |-> sticky]
    ELSE LET half == big_half(m)
             odd == big_odd(m)
             any == sticky \/ guard
         IN  IF Len(half) >= 0 /\ odd \in BOOLEAN /\ any \in BOOLEAN
             THEN shift_out(half, k - 1, odd, any)
             ELSE [m |-> m, guard |-> guard, sticky |-> sticky]

\* the double nearest to sign * (m + f) * 2^e, where 0 <= f < 1 and f > 0 iff
\* sticky (sticky only with more than MantissaBits bits in m)
fl_round(sign, m, e, sticky) ==
    IF m = <<>> THEN FloatZero
    ELSE LET bits == big_bits(m) IN
         IF bits <= MantissaBits
         THEN [sign |-> sign, m |-> big_shl(m, MantissaBits - bits),
               e |-> e - (MantissaBits - bits)]
         ELSE LET k == bits - MantissaBits
                  cut == shift_out(m, k, FALSE, sticky)
                  up == cut.guard /\ (cut.sticky \/ big_odd(cut.m))
                  m2 == IF up THEN big_add(cut.m, big(1)) ELSE cut.m
              IN  IF big_bits(m2) > MantissaBits
                  THEN [sign |-> sign, m |-> big_half(m2), e |-> e + k + 1]
                  ELSE [sign |-> sign, m |-> m2, e |-> e + k]

RECURSIVE pow2(_)
pow2(k) == IF k = 0 THEN 1 ELSE 2 * pow2(k - 1)

\* float(n) for an int n of at most 25 bits: exact, its bits at the top of the
\* mantissa
fl_int(n) ==
    IF n = 0 THEN FloatZero
    ELSE LET a == IF n < 0 THEN -n ELSE n
             bits == bit_length(a)
         IN  [sign |-> IF n < 0 THEN -1 ELSE 1,
              m |-> <<0, a * pow2(MantissaBits - 28 - bits)>>,
              e |-> bits - MantissaBits]

\* k more bits of the quotient of the remainder by the divisor d, the
\* remainder (r1, r0), the divisor (d1, d0) and the quotient (q1, q0) each
\* written in two limbs
RECURSIVE div_bits(_, _, _, _, _, _, _)
div_bits(r1, r0, d1, d0, q1, q0, k) ==
    IF k = 0 THEN [q |-> big_trim(<<q0, q1>>), r |-> big_trim(<<r0, r1>>)]
    ELSE LET t0 == (2 * r0) % LimbBase
             t1 == 2 * r1 + (2 * r0) \div LimbBase
             ge == t1 > d1 \/ (t1 = d1 /\ t0 >= d0)
             borrow == IF t0 < d0 THEN 1 ELSE 0
             n0 == IF ge THEN t0 - d0 + borrow * LimbBase ELSE t0
             n1 == IF ge THEN t1 - d1 - borrow ELSE t1
             bit == IF ge THEN 1 ELSE 0
             p0 == (2 * q0 + bit) % LimbBase
             p1 == 2 * q1 + (2 * q0 + bit) \div LimbBase
         IN  IF n0 >= 0 /\ n1 >= 0 /\ p0 >= 0 /\ p1 >= 0
             THEN div_bits(n1, n0, d1, d0, p1, p0, k - 1)
             ELSE [q |-> <<>>, r |-> <<>>]

\* x / y for floats, y not zero
fl_div(x, y) ==
    IF x.sign = 0 THEN FloatZero
    ELSE LET ge == ~big_lt(x.m, y.m)
             first == IF ge THEN big_sub(x.m, y.m) ELSE x.m
             r0 == IF Len(first) >= 1 THEN first[1] ELSE 0
             r1 == IF Len(first) >= 2 THEN first[2] ELSE 0
             res == div_bits(r1, r0, y.m[2], y.m[1], 0, IF ge THEN 1 ELSE 0,
                             MantissaBits + 2)
         IN  fl_round(x.sign * y.sign, res.q, x.e - y.e - (MantissaBits + 2),
                      res.r # <<>>)

\* x - y for floats
fl_sub(x, y) ==
    IF y.sign = 0 THEN x
    ELSE IF x.sign = 0 THEN [y EXCEPT !.sign = -y.sign]
    ELSE LET e == IF x.e < y.e THEN x.e ELSE y.e
             xm == big_shl(x.m, x.e - e)
             ym == big_shl(y.m, y.e - e)
         IN  IF x.sign # y.sign THEN fl_round(x.sign, big_add(xm, ym), e, FALSE)
             ELSE IF big_lt(xm, ym) THEN fl_round(-x.sign, big_sub(ym, xm), e, FALSE)
             ELSE fl_round(x.sign, big_sub(xm, ym), e, FALSE)

\* x * k for a float x and a small int k > 0
fl_mul(x, k) == fl_round(x.sign, big_mul(x.m, k), x.e, FALSE)

\* x > y for floats
fl_gt(x, y) == fl_sub(x, y).sign = 1

(***************************************************************************)
(* core/spike_detector.py, SpikeDetector.  A sample of a keyword's history *)
(* is {'count', 'timestamp'}; the history is cached as a list of samples   *)
(* under "keyword_history_" + keyword.  A Python number is an int or a     *)
(* float.                                                                  *)
(***************************************************************************)
HISTORY_TTL == 86400        \* cache.get(cache_key, ttl=86400)
HISTORY_WINDOW == 86400     \* cutoff = timestamp - 86400
SPIKE_THRESHOLD == 50       \* is_spike = spike_pct > 50
CONFIDENCE_SAMPLES == 10    \* 'high' if len(history) > 10

HistoryKeyPrefix ==
    <<"k", "e", "y", "w", "o", "r", "d", "_", "h", "i", "s", "t", "o", "r", "y", "_">>

Sample(count, timestamp) == [count |-> count, timestamp |-> timestamp]

PyInt(n) == [t |-> "int", v |-> n]
PyFloat(x) == [t |-> "float", v |-> x]

\* float(x) of a number
to_float(x) == IF x.t = "int" THEN fl_int(x.v) ELSE x.v

\* x == 0 and x > k of a number and an int
is_zero(x) == IF x.t = "int" THEN x.v = 0 ELSE x.v.sign = 0
greater(x, k) == IF x.t = "int" THEN x.v > k ELSE fl_gt(x.v, fl_int(k))

RECURSIVE sum(_)
sum(counts) == IF counts = <<>> THEN 0 ELSE counts[1] + sum(Tail(counts))

\* the list the history is loaded as: history = cache.get(...) or []
or_empty(value) == IF value.t = "list" THEN value.v ELSE <<>>

\* the samples of history with timestamp >= cutoff
after_inclusive(history, cutoff) == SelectSeq(history, LAMBDA h : h.timestamp >= cutoff)

\* history = [h for h in history if h['timestamp'] > cutoff]
after(history, cutoff) == SelectSeq(history, LAMBDA h : h.timestamp > cutoff)

\* the historical counts taken from the whole of history, current sample included
but_last_kept(history) == history

\* history[:-1]
but_last(history) == SubSeq(history, 1, Len(history) - 1)

\* 'high' if len(history) >= 10 else 'medium'
confidence_inclusive(history) ==
    IF Len(history) >= CONFIDENCE_SAMPLES THEN "high" ELSE "medium"

\* 'high' if len(history) > 10 else 'medium'
confidence(history) ==
    IF Len(history) > CONFIDENCE_SAMPLES THEN "high" ELSE "medium"

\* the statements after the early return: the dict returned for the pruned
\* history and the current count
spike_result(history, current_count) ==
    LET historical_counts == [j \in DOMAIN but_last(history) |-> but_last(history)[j].count]
        avg == IF historical_counts # <<>>
               THEN PyFloat(fl_div(fl_int(sum(historical_counts)),
                                   fl_int(Len(historical_counts))))
               ELSE PyInt(1)
        spike_pct == IF is_zero(avg)
                     THEN IF current_count = 0 THEN PyInt(0) ELSE PyInt(100)
                     ELSE PyFloat(fl_mul(fl_div(fl_sub(fl_int(current_count),
                                                       to_float(avg)),
                                                to_float(avg)), 100))
        is_spike == greater(spike_pct, SPIKE_THRESHOLD)
    IN  [spike_percent |-> spike_pct,
         is_spike |-> is_spike,
         historical_avg |-> avg,
         current_count |-> current_count,
         confidence |-> confidence(history)]

\* the dict of the early return, with historical_avg 0
low_result_zero_avg(current_count) ==
    [spike_percent |-> PyInt(0),
     is_spike |-> FALSE,
     historical_avg |-> PyInt(0),
     confidence |-> "low"]

\* the dict of the early return
low_result(current_count) ==
    [spike_percent |-> PyInt(0),
     is_spike |-> FALSE,
     historical_avg |-> PyInt(current_count),
     confidence |-> "low"]

(***************************************************************************)
(* calculate_spike(keyword, current_count) at time t on the cache c: the   *)
(* set of outcomes (Cache.set may leave one of several directories), each  *)
(* the dict returned, the cache afterwards, and for the record the list    *)
(* loaded and the list stored.                                             *)
(***************************************************************************)
calculate_spike(c, keyword, current_count, t) ==
    LET cache_key == HistoryKeyPrefix \o keyword
        got == get(c, cache_key, HISTORY_TTL, t)
        loaded == or_empty(got.ret)
        timestamp == t
        appended == Append(loaded, Sample(current_count, timestamp))
        cutoff == timestamp - HISTORY_WINDOW
        history == after(appended, cutoff)
        ret == IF Len(history) < 2 THEN low_result(current_count)
               ELSE spike_result(history, current_count)
    IN  { [ret |-> ret, cache |-> c2, loaded |-> loaded, history |-> history] :
            c2 \in set(got.cache, cache_key, PyList(history), t) }

\* keyword_counts.get(keyword, 1)
keyword_counts_get_one(keyword_counts, keyword) ==
    IF keyword \in DOMAIN keyword_counts THEN keyword_counts[keyword] ELSE 1

\* keyword_counts.get(keyword, 0)
keyword_counts_get(keyword_counts, keyword) ==
    IF keyword \in DOMAIN keyword_counts THEN keyword_counts[keyword] ELSE 0

(***************************************************************************)
(* The frame of a SpikeDetector call.  fn is the method called and n the   *)
(* number of calls so far; keywords, keyword_counts, i and results are the *)
(* arguments and locals of analyze_keywords, pc "for" the head of its      *)
(* loop; info is the logger.info lines.  For the record, calls lists the   *)
(* calculate_spike calls of the frame in order: keyword, count, the time   *)
(* at, the dict returned (analysis), the list loaded from the cache and    *)
(* the list stored (history).                                              *)
(***************************************************************************)
IdleSpike ==
    [pc |-> "idle", fn |-> "", n |-> 0, keywords |-> <<>>,
     keyword_counts |-> EmptyDict, i |-> 0, results |-> EmptyDict,
     info |-> <<>>, calls |-> <<>>]

CallRecord(keyword, count, t, o) ==
    [keyword |-> keyword, count |-> count, at |-> t, analysis |-> o.ret,
     loaded |-> o.loaded, history |-> o.history]

\* one iteration of the loop of analyze_keywords on the frame s, o being the
\* outcome of its calculate_spike call at time t
analyze_iteration(s, o, t) ==
    LET keyword == s.keywords[s.i]
        count == keyword_counts_get(s.keyword_counts, keyword)
        analysis == o.ret
    IN  [s EXCEPT !.i = @ + 1,
                  !.results = Put(@, keyword, analysis),
                  !.info = IF analysis.is_spike THEN Append(@, keyword) ELSE @,
                  !.calls = Append(@, CallRecord(keyword, count, t, o))]

(***************************************************************************)
(* Spec: one Cache(max_entries = 200) and a caller that sets, gets,        *)
(* deletes and clears two keys of the same file name.                      *)
(*   last     the last operation: its arguments, its result, the time, and *)
(*            for a get: imm, whether it follows a set of the same key     *)
(*            with nothing in between and no clock advance (value is then  *)
(*            the value set); pre, the most recent set of the key if any;  *)
(*            hadMem, hadFile, whether the key had a memory entry and a    *)
(*            file when the get or delete began; file, that file if any;   *)
(*            mem, that memory entry if any.                               *)
(*            Carried from operation to operation: gone, the keys deleted  *)
(*            or cleared and not set since, and goneFile, those of them    *)
(*            with no key of the same file name set since.                 *)
(*   lastSet  per key the value and time of its most recent set, and       *)
(*            evicted: whether the memory entry written by that set has    *)
(*            been removed since (by an expired get, delete or clear), and *)
(*            aliased: whether another key of the same file name has been  *)
(*            set since.                                                   *)
(***************************************************************************)
Keys == { <<"a", " ", "b">>, <<"a", "_", "b">> }
Values == { PyList(<<1>>), PyTuple(<<2>>) }

NoOp == [op |-> "none", key |-> <<>>, value |-> None, ttl |-> 0, ret |-> None,
         t |-> 0, imm |-> FALSE, pre |-> <<>>, hadMem |-> FALSE, hadFile |-> FALSE,
         file |-> <<>>, mem |-> <<>>, gone |-> {}, goneFile |-> {}]

Init ==
    /\ now = 0
    /\ cache = Cache(DefaultMaxEntries, EmptyDict)
    /\ last = NoOp
    /\ lastSet = EmptyDict
    /\ writes = <<>>
    /\ feed = FeedSource(<<>>)
    /\ call = IdleCall
    /\ agg = IdleAgg
    /\ spike = IdleSpike
    /\ race = IdleRace

SetOp(key, value) ==
    /\ \E c \in set(cache, key, value, now) : cache' = c
    /\ last' = [NoOp EXCEPT !.op = "set", !.key = key, !.value = value, !.t = now,
                  !.gone = last.gone \ {key},
                  !.goneFile = { k \in last.goneFile :
                                   _get_cache_file(k) # _get_cache_file(key) }]
    /\ lastSet' = Put([k \in DOMAIN lastSet |->
                          IF k # key /\ _get_cache_file(k) = _get_cache_file(key)
                          THEN [lastSet[k] EXCEPT !.aliased = TRUE]
                          ELSE lastSet[k]],
                      key, [value |-> value, t |-> now, evicted |-> FALSE,
                            aliased |-> FALSE])
    /\ UNCHANGED <<now, feedVars>>

GetOp(key, ttl) ==
    LET r == get(cache, key, ttl, now) IN
    /\ cache' = r.cache
    /\ last' = [NoOp EXCEPT !.op = "get", !.key = key, !.ttl = ttl, !.ret = r.ret,
                  !.t = now,
                  !.imm = (last.op = "set" /\ last.key = key /\ last.t = now),
                  !.value = IF last.op = "set" /\ last.key = key /\ last.t = now
                            THEN last.value ELSE None,
                  !.pre = IF key \in DOMAIN lastSet THEN <<lastSet[key]>> ELSE <<>>,
                  !.hadMem = (key \in DOMAIN cache._memory_cache),
                  !.hadFile = (_get_cache_file(key) \in DOMAIN cache.files),
                  !.file = IF _get_cache_file(key) \in DOMAIN cache.files
                           THEN <<cache.files[_get_cache_file(key)]>> ELSE <<>>,
                  !.mem = IF key \in DOMAIN cache._memory_cache
                          THEN <<cache._memory_cache[key]>> ELSE <<>>,
                  !.gone = last.gone, !.goneFile = last.goneFile]
    /\ lastSet' = IF key \in DOMAIN cache._memory_cache
                     /\ now - cache._memory_cache[key].timestamp >= ttl
                     /\ key \in DOMAIN lastSet
                  THEN [lastSet EXCEPT ![key].evicted = TRUE]
                  ELSE lastSet
    /\ UNCHANGED <<now, feedVars>>

DeleteOp(key) ==
    /\ cache' = delete(cache, key)
    /\ last' = [NoOp EXCEPT !.op = "delete", !.key = key, !.t = now,
                  !.file = IF _get_cache_file(key) \in DOMAIN cache.files
                           THEN <<cache.files[_get_cache_file(key)]>> ELSE <<>>,
                  !.gone = last.gone \cup {key},
                  !.goneFile = last.goneFile \cup {key}]
    /\ lastSet' = IF key \in DOMAIN lastSet
                  THEN [lastSet EXCEPT ![key].evicted = TRUE] ELSE lastSet
    /\ UNCHANGED <<now, feedVars>>

Set(key, value) == SetOp(key, value) /\ UNCHANGED writes
Get(key, ttl) == GetOp(key, ttl) /\ UNCHANGED writes
Delete(key) == DeleteOp(key) /\ UNCHANGED writes

Clear ==
    /\ cache' = clear(cache)
    /\ last' = [NoOp EXCEPT !.op = "clear", !.t = now, !.gone = Keys,
                  !.goneFile = Keys]
    /\ lastSet' = [k \in DOMAIN lastSet |-> [lastSet[k] EXCEPT !.evicted = TRUE]]
    /\ UNCHANGED <<now, writes, feedVars>>

Tick ==
    /\ now < MaxTime
    /\ now' = now + 1
    /\ UNCHANGED <<cache, last, lastSet, writes, feedVars>>

Next ==
    \/ \E key \in Keys, value \in Values : Set(key, value)
    \/ \E key \in Keys, ttl \in 0..MaxTTL : Get(key, ttl)
    \/ \E key \in Keys : Delete(key)
    \/ Clear
    \/ Tick

Spec == Init /\ [][Next]_vars

(***************************************************************************)
(* Properties of Cache under Spec.                                         *)
(***************************************************************************)
IsGetAfterSet == last.op = "get" /\ last.pre # <<>>
Elapsed == last.t - last.pre[1].t

AbsentInBothTiers(key) ==
    /\ key \notin DOMAIN cache._memory_cache
    /\ _get_cache_file(key) \notin DOMAIN cache.files

\* C1 as stated: set(key, value) followed immediately by get(key, ttl) returns
\* value, for every ttl.
C1_RoundTripEveryTtl ==
    (last.op = "get" /\ last.imm) => last.ret = last.value

\* C1, amended: set(key, value) followed immediately (no clock advance, no
\* operation in between) by get(key, ttl) returns value, for every ttl > 0.
C1_RoundTrip ==
    (last.op = "get" /\ last.imm /\ last.ttl > 0) => last.ret = last.value

C1_Witness ==
    /\ last.op = "get" /\ last.imm /\ last.ttl > 0
    /\ last.value.t = "tuple" /\ last.ret = last.value

\* C2 as stated: a get(key, ttl) made when the clock has advanced by at least
\* ttl since the set of key returns None and leaves key in neither tier.
C2_ExpiryAlways ==
    (IsGetAfterSet /\ Elapsed >= last.ttl)
        => (last.ret = None /\ AbsentInBothTiers(last.key))

\* C2, amended: a get(key, ttl) made when the clock has advanced by at least
\* ttl since the most recent set of key returns None and leaves key in neither
\* tier, provided no other key of the same sanitized file name has been set
\* after that set.
C2_Expiry ==
    (IsGetAfterSet /\ Elapsed >= last.ttl /\ ~last.pre[1].aliased)
        => (last.ret = None /\ AbsentInBothTiers(last.key))

C2_Witness ==
    /\ IsGetAfterSet /\ Elapsed >= last.ttl /\ last.ttl > 0
    /\ last.hadMem /\ last.hadFile /\ ~last.pre[1].aliased
    /\ last.ret = None /\ AbsentInBothTiers(last.key)

\* C3 as stated: after any sets and gets, get(key, ttl) at time T returns the
\* most recently set value of key if and only if T - stored_at < ttl.
C3_ValidIffFresh ==
    IsGetAfterSet => ((last.ret = last.pre[1].value) <=> (Elapsed < last.ttl))

\* C3, amended: get(key, ttl) at time T returns the most recently set value of
\* key if T - stored_at < ttl and the memory entry of that set has not been
\* removed since (by a get that found it expired under its own ttl, a delete or
\* a clear); if T - stored_at >= ttl and no other key of the same sanitized
\* file name has been set after that set, it returns None.
C3_ReaderTtl ==
    IsGetAfterSet =>
        /\ (Elapsed < last.ttl /\ ~last.pre[1].evicted)
               => last.ret = last.pre[1].value
        /\ (Elapsed >= last.ttl /\ ~last.pre[1].aliased) => last.ret = None

\* a get with a longer ttl still finds the value, after a colliding key was set
C3_Witness ==
    /\ IsGetAfterSet /\ Elapsed > 0 /\ Elapsed < last.ttl
    /\ ~last.pre[1].evicted /\ last.pre[1].aliased
    /\ last.ret = last.pre[1].value

(***************************************************************************)
(* SpecCap: one Cache(max_entries = n), its directory empty, and a caller  *)
(* that only sets.  writes is the log of the calls of set.                 *)
(***************************************************************************)
CapKeys == { <<"a", " ", "b">>, <<"a", "_", "b">>, <<"c">>, <<"d">> }

InitCap ==
    /\ now = 0
    /\ \E n \in 1..MaxEntries : cache = Cache(n, EmptyDict)
    /\ last = NoOp
    /\ lastSet = EmptyDict
    /\ writes = <<>>
    /\ feed = FeedSource(<<>>)
    /\ call = IdleCall
    /\ agg = IdleAgg
    /\ spike = IdleSpike
    /\ race = IdleRace

CapSet(key) ==
    /\ Len(writes) < MaxWrites
    /\ \E c \in set(cache, key, PyList(<<1>>), now) : cache' = c
    /\ writes' = Append(writes, [key |-> key, t |-> now])
    /\ UNCHANGED <<now, last, lastSet, feedVars>>

NextCap ==
    \/ \E key \in CapKeys : CapSet(key)
    \/ Tick

SpecCap == InitCap /\ [][NextCap]_vars

WrittenName(i) == _get_cache_file(writes[i].key)
WrittenNames == { WrittenName(i) : i \in 1..Len(writes) }
\* the time of the last write of file f (the log is in time order)
LastWriteTime(f) ==
    LET is == { i \in 1..Len(writes) : WrittenName(i) = f }
    IN  writes[CHOOSE i \in is : \A j \in is : j <= i].t
MostRecentNames(n) ==
    { WrittenName(i) : i \in { j \in 1..Len(writes) : j > Len(writes) - n } }
DistinctKeysWritten ==
    \A i, j \in 1..Len(writes) : i # j => writes[i].key # writes[j].key
DistinctNamesAndTimes ==
    \A i, j \in 1..Len(writes) :
        i < j => (WrittenName(i) # WrittenName(j) /\ writes[i].t < writes[j].t)

\* C4 as stated: after writing N + k distinct keys the file tier holds at most
\* N entries, those of the N most recently written keys.
C4_MostRecentKeysKept ==
    (DistinctKeysWritten /\ Len(writes) >= cache.max_entries)
        => /\ Cardinality(DOMAIN cache.files) <= cache.max_entries
           /\ DOMAIN cache.files = MostRecentNames(cache.max_entries)

\* C4, amended: after any writes the file tier holds at most N entries and no
\* removed file was written later than a file that is kept; after writing
\* N + k keys the entries kept are those of the N most recently written keys
\* when the keys have pairwise distinct sanitized file names and the writes
\* pairwise distinct modification times.
C4_Capacity ==
    /\ Cardinality(DOMAIN cache.files) <= cache.max_entries
    /\ DOMAIN cache.files \subseteq WrittenNames
    /\ \A f \in WrittenNames \ DOMAIN cache.files : \A g \in DOMAIN cache.files :
           LastWriteTime(f) <= cache.files[g].mtime
    /\ (DistinctNamesAndTimes /\ Len(writes) >= cache.max_entries)
           => DOMAIN cache.files = MostRecentNames(cache.max_entries)

\* three files written at three times into a cache of two: the oldest is gone
C4_Witness ==
    /\ cache.max_entries = 2 /\ Len(writes) = 3 /\ DistinctNamesAndTimes
    /\ DOMAIN cache.files = { WrittenName(2), WrittenName(3) }

(***************************************************************************)
(* SpecFeed: one FeedSource over a Cache(max_entries = 200) with an empty  *)
(* directory, and a caller that makes one fetch after the other.           *)
(***************************************************************************)
MaxMirrors == 3     \* SpecFeed configures 0..MaxMirrors mirrors
MaxCalls == 2       \* SpecFeed makes at most MaxCalls fetches
Queries == { <<"a">> }
RssUrls == { <<"h", ":", "/", "x">> }

Mirrors(n) == [i \in 1..n |-> IF i <= Len(ConfiguredMirrors)
                              THEN ConfiguredMirrors[i] ELSE "https://nitter.example"]

InitFeed ==
    /\ now = 0
    /\ cache = Cache(DefaultMaxEntries, EmptyDict)
    /\ last = NoOp
    /\ lastSet = EmptyDict
    /\ writes = <<>>
    /\ \E n \in 0..MaxMirrors : feed = FeedSource(Mirrors(n))
    /\ call = IdleCall
    /\ agg = IdleAgg
    /\ spike = IdleSpike
    /\ race = IdleRace

Returned == call.pc \in {"idle", "done", "raised"}

Becomes(w) ==
    /\ now' = w.now
    /\ cache' = w.cache
    /\ feed' = w.feed
    /\ call' = w.call
    /\ UNCHANGED <<cacheHist, spike>>

FetchNitterSearch(query) ==
    /\ Returned /\ call.n < MaxCalls /\ UNCHANGED agg
    /\ Becomes(fetch_nitter_search(World, query))

\* the while loop: an attempt while attempts < max_attempts, else the end
NitterLoop ==
    /\ call.pc = "loop"
    /\ IF call.attempts < call.max_attempts
       THEN \E response \in Responses(call.fn, call.query) :
              \E w \in nitter_attempt(World, response) : Becomes(w)
       ELSE \E w \in return_items(World) : Becomes(w)

FetchGoogleNews(query) ==
    /\ Returned /\ call.n < MaxCalls /\ UNCHANGED agg
    /\ Becomes(fetch_google_news(World, query))

FetchRssFeed(url, source_name) ==
    /\ Returned /\ call.n < MaxCalls /\ UNCHANGED agg
    /\ Becomes(fetch_rss_feed(World, url, source_name))

Request ==
    /\ call.pc = "request"
    /\ \E response \in Responses(call.fn, call.query) :
         \E w \in single_request(World, response,
                                 IF call.fn = "fetch_google_news" THEN NEWS_LIMIT
                                 ELSE RSS_LIMIT,
                                 IF call.fn = "fetch_google_news" THEN "Google News"
                                 ELSE call.source_name) : Becomes(w)

TickFeed ==
    /\ \E t \in FeedTimes : t > now /\ now' = t
    /\ UNCHANGED <<cache, cacheHist, feedVars>>

NextFeed ==
    \/ \E query \in Queries : FetchNitterSearch(query)
    \/ NitterLoop /\ UNCHANGED agg
    \/ \E query \in Queries : FetchGoogleNews(query)
    \/ \E url \in RssUrls : FetchRssFeed(url, "Feed")
    \/ Request /\ UNCHANGED agg
    \/ TickFeed

SpecFeed == InitFeed /\ [][NextFeed]_vars

\* the thread of a call runs on: every client.get ends within its timeout
SpecFeedFair ==
    SpecFeed /\ WF_vars(NitterLoop /\ UNCHANGED agg) /\ WF_vars(Request /\ UNCHANGED agg)

(***************************************************************************)
(* Properties of the fetches under SpecFeed.                               *)
(***************************************************************************)
IsNitterCall == call.fn = "fetch_nitter_search"
All429 == \A i \in 1..Len(call.answers) : call.answers[i] = "429"
\* the mirror of attempt i, counted from 0 as the claim does
MirrorOfAttempt(i) ==
    feed.nitter_urls[((call.start_idx + i) % Len(feed.nitter_urls)) + 1]

\* C5: in a fetch_nitter_search call over N mirrors whose attempts are all
\* answered 429, attempt i (from 0) contacts mirrors[(start + i) mod N], and
\* the call makes N attempts and no more.
C5_FailoverOrder ==
    (IsNitterCall /\ All429) =>
        /\ Len(call.contacted) <= Len(feed.nitter_urls)
        /\ \A i \in 0..(Len(call.contacted) - 1) :
               call.contacted[i + 1] = MirrorOfAttempt(i)
        /\ (call.pc = "done" /\ call.was_miss /\ ~call.was_limited)
               => Len(call.contacted) = Len(feed.nitter_urls)

\* three mirrors, a pointer that starts at 2, three 429s, the call returned
C5_Witness ==
    /\ IsNitterCall /\ All429 /\ call.pc = "done"
    /\ Len(feed.nitter_urls) = 3 /\ call.start_idx = 2
    /\ call.contacted = <<feed.nitter_urls[3], feed.nitter_urls[1], feed.nitter_urls[2]>>

\* C6: every fetch_nitter_search call returns, and it calls client.get at
\* most len(nitter_urls) times, whatever the network answers.
C6_BoundedRetry ==
    /\ [](IsNitterCall => Len(call.contacted) <= Len(feed.nitter_urls))
    /\ [](call.pc = "loop" => <>(call.pc = "done"))

\* a call that met a 429, an HTTPError and another exception, and returned
C6_Witness ==
    /\ IsNitterCall /\ call.pc = "done"
    /\ call.answers = <<"429", "HTTPError", "Exception">>

\* C7: a fetch that misses the cache while its source is rate limited returns
\* an empty list at once: no client.get, no sleep, no rotation, no cache write.
C7_FailFast ==
    (call.was_miss /\ call.was_limited) =>
        /\ call.pc = "done" /\ call.ret = <<>>
        /\ call.contacted = <<>> /\ ~call.slept /\ ~call.wrote
        /\ feed.current_nitter_idx = call.start_idx
        /\ AbsentInBothTiers(call.cache_key)

C7_Witness ==
    /\ call.was_miss /\ call.was_limited /\ call.pc = "done"
    /\ call.fn = "fetch_rss_feed" /\ call.ret = <<>>

\* C8: a fetch calls cache.set only with a result that is not empty; after a
\* fetch that returned an empty list the cache has no entry of its key, so the
\* next fetch of the same query misses the cache.
C8_EmptyNeverCached ==
    /\ call.wrote => (call.pc = "done" /\ call.ret # <<>>)
    /\ (call.pc = "done" /\ call.ret = <<>>) =>
           /\ AbsentInBothTiers(call.cache_key)
           /\ get(cache, call.cache_key, CACHE_TTL, now).ret = None

\* a feed without entries was fetched, and nothing was cached
C8_Witness ==
    /\ call.pc = "done" /\ call.ret = <<>> /\ call.answers = <<"ok">>
    /\ call.fn = "fetch_google_news"

(***************************************************************************)
(* SpecAgg: one FeedSource over the configured mirrors and a               *)
(* Cache(max_entries = 200) whose directory holds two unreadable files,    *)
(* and a caller that makes one aggregate_feeds call at time CACHE_TTL.     *)
(***************************************************************************)
MaxKeywords == 6    \* SpecAgg passes 0..MaxKeywords keywords

\* the keywords of SpecAgg: titles that differ in case only, a keyword that
\* comes again, and keywords behind position KEYWORD_LIMIT
KeywordPool == <<<<"a">>, <<"A">>, <<"a">>, <<"A">>, <<"a">>, <<"c">>, <<"d">>, <<"e">>>>
KeywordLists == { SubSeq(KeywordPool, 1, n) : n \in 0..MaxKeywords }

UnreadableFiles ==
    Put(Put(EmptyDict, _get_cache_file(NitterKeyPrefix \o <<"a">>), CorruptFile(0)),
        _get_cache_file(GoogleKeyPrefix \o <<"a">>), CorruptFile(0))

InitAgg ==
    /\ now = CACHE_TTL
    /\ cache = Cache(DefaultMaxEntries, UnreadableFiles)
    /\ last = NoOp
    /\ lastSet = EmptyDict
    /\ writes = <<>>
    /\ feed = FeedSource(ConfiguredMirrors)
    /\ call = IdleCall
    /\ agg = IdleAgg
    /\ spike = IdleSpike
    /\ race = IdleRace

\* the call of aggregate_feeds: all_items = [], seen_titles = set()
AggregateFeeds(keywords) ==
    /\ agg.pc = "idle"
    /\ agg' = [IdleAgg EXCEPT !.pc = "for", !.keywords = keywords, !.i = 1]
    /\ UNCHANGED <<now, cache, cacheHist, feed, call, spike>>

\* the head of the for loop: the next keyword and the call of
\* fetch_nitter_search, or the end of the loop and the rest of the function
AggFor ==
    /\ agg.pc = "for"
    /\ IF agg.i <= Len(fan_out(agg.keywords))
       THEN /\ Becomes(fetch_nitter_search(World, fan_out(agg.keywords)[agg.i]))
            /\ agg' = [agg EXCEPT !.pc = "tweets"]
       ELSE /\ agg' = [agg EXCEPT !.pc = "done", !.ret = ranked(agg.all_items)]
            /\ UNCHANGED <<now, cache, cacheHist, feed, call, spike>>

AggNitterLoop == agg.pc = "tweets" /\ NitterLoop /\ UNCHANGED agg

\* fetch_nitter_search has returned: all_items.extend(tweets), then the call
\* of fetch_google_news
AggTweets ==
    /\ agg.pc = "tweets"
    /\ \/ /\ call.pc = "done"
          /\ agg' = [agg EXCEPT !.pc = "news", !.all_items = @ \o call.ret,
                                !.log = Append(@, LogEntry(call))]
          /\ Becomes(fetch_google_news(World, fan_out(agg.keywords)[agg.i]))
       \/ /\ call.pc = "raised"
          /\ agg' = [agg EXCEPT !.pc = "raised"]
          /\ UNCHANGED <<now, cache, cacheHist, feed, call, spike>>

AggRequest == agg.pc = "news" /\ Request /\ UNCHANGED agg

\* fetch_google_news has returned: all_items.extend(news)
AggNews ==
    /\ agg.pc = "news"
    /\ \/ /\ call.pc = "done"
          /\ agg' = [agg EXCEPT !.pc = "for", !.i = @ + 1, !.all_items = @ \o call.ret,
                                !.log = Append(@, LogEntry(call))]
       \/ /\ call.pc = "raised"
          /\ agg' = [agg EXCEPT !.pc = "raised"]
    /\ UNCHANGED <<now, cache, cacheHist, feed, call, spike>>

NextAgg ==
    \/ \E keywords \in KeywordLists : AggregateFeeds(keywords)
    \/ AggFor
    \/ AggNitterLoop
    \/ AggTweets
    \/ AggRequest
    \/ AggNews

SpecAgg == InitAgg /\ [][NextAgg]_vars

(***************************************************************************)
(* Properties of aggregate_feeds under SpecAgg.                            *)
(***************************************************************************)
RECURSIVE Returns(_)
Returns(log) == IF log = <<>> THEN <<>> ELSE Head(log).ret \o Returns(Tail(log))

TitlesOf(items) == { lower(items[j].title) : j \in 1..Len(items) }
ItemsOf(items) == { items[j] : j \in 1..Len(items) }
NoAnswerParsed == \A j \in 1..Len(call.answers) : call.answers[j] # "ok"

\* C9: aggregate_feeds never raises, whatever the fetches meet (429, transport
\* error, another exception, a payload without entries, an unreadable cache
\* file); a fetch that missed the cache and got no parsed response gives no
\* items, and what the other fetches return is all kept: all_items is the
\* concatenation of the returns, the result is drawn from it and has every
\* title of it while there are at most 20 different ones.
C9_NeverRaises ==
    /\ agg.pc # "raised" /\ call.pc # "raised"
    /\ (call.pc = "done" /\ call.was_miss /\ NoAnswerParsed) => call.ret = <<>>
    /\ agg.all_items = Returns(agg.log)
    /\ agg.pc = "done" =>
          /\ ItemsOf(agg.ret) \subseteq ItemsOf(agg.all_items)
          /\ Cardinality(TitlesOf(agg.all_items)) <= 20
                => TitlesOf(agg.ret) = TitlesOf(agg.all_items)

\* ten fetches: the first found an unreadable cache file and then no mirror
\* that answered, the fourth failed too, others returned items
C9_Witness ==
    /\ agg.pc = "done" /\ Len(agg.log) = 10
    /\ agg.log[1].ret = <<>> /\ agg.log[2].ret # <<>> /\ agg.log[3].ret # <<>>
    /\ agg.log[4].ret = <<>> /\ agg.log[9].ret # <<>>
    /\ agg.ret # <<>>

\* C10: aggregate_feeds fetches for the first 5 keywords only, in input order,
\* fetch_nitter_search then fetch_google_news for each; no fetch is begun
\* for a keyword at position 6 or later, and the cache gets no entry for it.
C10_FanOutCap ==
    /\ Len(agg.log) <= 10
    /\ \A j \in 1..Len(agg.log) :
          /\ (j + 1) \div 2 <= Len(agg.keywords)
          /\ agg.log[j].query = agg.keywords[(j + 1) \div 2]
          /\ agg.log[j].fn = IF j % 2 = 1 THEN "fetch_nitter_search"
                             ELSE "fetch_google_news"
    /\ agg.pc \in {"tweets", "news"} =>
          /\ agg.i <= 5 /\ call.query = agg.keywords[agg.i]
          /\ call.n = Len(agg.log) + 1
    /\ agg.pc = "done" =>
          /\ Len(agg.log) = 2 * (IF Len(agg.keywords) < 5 THEN Len(agg.keywords) ELSE 5)
          /\ call.n = Len(agg.log)
    /\ \A k \in 6..Len(agg.keywords) :
          (\A j \in 1..5 : agg.keywords[j] # agg.keywords[k]) =>
              /\ AbsentInBothTiers(NitterKeyPrefix \o agg.keywords[k])
              /\ AbsentInBothTiers(GoogleKeyPrefix \o agg.keywords[k])

\* six keywords, ten fetches, the last of them over the network
C10_Witness ==
    /\ agg.pc = "done" /\ Len(agg.keywords) = 6 /\ Len(agg.log) = 10
    /\ agg.keywords[6] = <<"c">> /\ call.contacted # <<>> /\ call.ret # <<>>

(***************************************************************************)
(* SpecRank: one aggregate_feeds call for two keywords, every fetch of it  *)
(* answered with a feed: none, eleven numbered entries, or a few headlines *)
(* whose titles differ in case only and whose dates are ISO dates, other   *)
(* text, or missing.                                                       *)
(***************************************************************************)
Headline(title, n, published) ==
    [title |-> title, link |-> <<"h">> \o Numeral(n), published |-> published]

IsoJan2 == <<"2", "0", "2", "4", "-", "0", "1", "-", "0", "2">>
IsoJan3 == <<"2", "0", "2", "4", "-", "0", "1", "-", "0", "3">>
NotADate == <<"B", "a", "d">>

Headlines(fn) ==
    IF fn = "fetch_nitter_search"
    THEN <<Headline(<<"A", "b">>, 1, IsoJan2), Headline(<<"S", "S">>, 2, NotADate),
           Headline(<<"U00DF">>, 3, <<>>), Headline(<<"a", "b">>, 4, IsoJan3)>>
    ELSE <<Headline(<<"a", "B">>, 5, IsoJan3), Headline(<<"s", "s">>, 6, IsoJan2),
           Headline(<<"Z">>, 7, IsoJan2), Headline(<<"z">>, 8, <<>>)>>

RankResponses(fn, query) ==
    { [kind |-> "ok", entries |-> entries] :
        entries \in {<<>>, FeedEntries(fn, query, NITTER_LIMIT + 1), Headlines(fn)} }

RankKeywordLists == { <<<<"a">>, <<"b">>>>, <<<<"a">>, <<"A">>>> }

InitRank ==
    /\ now = 0
    /\ cache = Cache(DefaultMaxEntries, EmptyDict)
    /\ last = NoOp
    /\ lastSet = EmptyDict
    /\ writes = <<>>
    /\ feed = FeedSource(ConfiguredMirrors)
    /\ call = IdleCall
    /\ agg = IdleAgg
    /\ spike = IdleSpike
    /\ race = IdleRace

RankNitterLoop ==
    /\ agg.pc = "tweets" /\ call.pc = "loop" /\ UNCHANGED agg
    /\ \E response \in RankResponses(call.fn, call.query) :
         \E w \in nitter_attempt(World, response) : Becomes(w)

RankRequest ==
    /\ agg.pc = "news" /\ call.pc = "request" /\ UNCHANGED agg
    /\ \E response \in RankResponses(call.fn, call.query) :
         \E w \in single_request(World, response, NEWS_LIMIT, "Google News") : Becomes(w)

NextRank ==
    \/ \E keywords \in RankKeywordLists : AggregateFeeds(keywords)
    \/ AggFor
    \/ RankNitterLoop
    \/ AggTweets
    \/ RankRequest
    \/ AggNews

SpecRank == InitRank /\ [][NextRank]_vars

(***************************************************************************)
(* Properties of the result of aggregate_feeds under SpecRank.             *)
(***************************************************************************)
\* Unicode case folding of the characters of the model: as str.lower(),
\* but sharp s folds to "ss"
RECURSIVE casefold(_)
casefold(text) ==
    IF text = <<>> THEN <<>>
    ELSE (IF Head(text) = "U00DF" THEN <<"s", "s">> ELSE lower(<<Head(text)>>))
         \o casefold(Tail(text))

\* the log is in concatenation order: for each keyword in turn the items of
\* fetch_nitter_search, then those of fetch_google_news
ConcatenationOrder ==
    /\ agg.all_items = Returns(agg.log)
    /\ \A j \in 1..Len(agg.log) :
          /\ agg.log[j].query = agg.keywords[(j + 1) \div 2]
          /\ agg.log[j].fn = IF j % 2 = 1 THEN "fetch_nitter_search"
                             ELSE "fetch_google_news"

Deduplicated ==
    { agg.all_items[i] : i \in { h \in 1..Len(agg.all_items) :
        \A g \in 1..(h - 1) :
            lower(agg.all_items[g].title) # lower(agg.all_items[h].title) } }

\* C12: the result of aggregate_feeds is in non-increasing lexical order of
\* published and has at most 20 items; they are deduplicated items, all of
\* them or 20, and no deduplicated item left out has a greater published
\* than an item of the result.
C12_RankedTop ==
    agg.pc = "done" =>
        /\ \A j, k \in 1..Len(agg.ret) :
              j < k => ~str_lt(agg.ret[j].published, agg.ret[k].published)
        /\ Len(agg.ret) <= 20
        /\ Len(agg.ret) = Cardinality(ItemsOf(agg.ret))
        /\ Len(agg.ret) = IF Cardinality(Deduplicated) < 20
                          THEN Cardinality(Deduplicated) ELSE 20
        /\ ItemsOf(agg.ret) \subseteq Deduplicated
        /\ \A x \in Deduplicated \ ItemsOf(agg.ret) : \A r \in ItemsOf(agg.ret) :
              ~str_lt(r.published, x.published)

\* 23 deduplicated items with different dates, 20 returned
C12_Witness ==
    /\ agg.pc = "done" /\ Len(agg.ret) = 20 /\ Cardinality(Deduplicated) = 23
    /\ str_lt(agg.ret[20].published, agg.ret[1].published)

\* a well-formed ISO-8601 date among the strings of the model: YYYY-MM-DD
WellFormedDate(published) ==
    /\ Len(published) = 10
    /\ \A i \in 1..10 : IF i \in {5, 8} THEN published[i] = "-"
                        ELSE published[i] \in AsciiDigit

\* C13: in the result of aggregate_feeds every item whose published is empty
\* or not a well-formed date comes after every item whose published is a
\* well-formed date.
C13_MalformedLast ==
    agg.pc = "done" =>
        \A j, k \in 1..Len(agg.ret) :
            (~WellFormedDate(agg.ret[j].published) /\ WellFormedDate(agg.ret[k].published))
                => k < j

(***************************************************************************)
(* More properties of the fetches under SpecFeed.                          *)
(***************************************************************************)
\* C14: a fetch that missed the cache never holds or returns more than 10
\* items (fetch_nitter_search), 5 items (fetch_google_news) or 5 items
\* (fetch_rss_feed), whatever its attempts met.
C14_ItemCaps ==
    (call.pc # "idle" /\ call.was_miss) =>
        LET cap == IF call.fn = "fetch_nitter_search" THEN 10 ELSE 5
        IN  Len(call.items) <= cap /\ Len(call.ret) <= cap

\* a feed of eleven entries, served by the third mirror after two failures
C14_Witness ==
    /\ call.pc = "done" /\ call.fn = "fetch_nitter_search" /\ call.was_miss
    /\ call.answers = <<"HTTPError", "429", "ok">> /\ Len(call.ret) = 10

(***************************************************************************)
(* SpecSpike: one SpikeDetector over a Cache(max_entries = 200) whose      *)
(* directory may hold, from an earlier run, the history of keyword "a":    *)
(* written at time 1, its first sample taken at time 0 and the others at   *)
(* time 1.  A caller makes at most MaxSpikeCalls calls of calculate_spike  *)
(* and analyze_keywords while the clock runs over SpikeTimes.              *)
(***************************************************************************)
MaxSpikeCalls == 2

SpikeTimes == {1, HISTORY_WINDOW, HISTORY_WINDOW + 1}

Ones(k) == [j \in 1..k |-> 1]

StoredCounts ==
    {<<5>>, <<10, 10, 10>>, <<1, 1, 0>>, <<0, 0>>, Ones(CONFIDENCE_SAMPLES - 1),
     Ones(CONFIDENCE_SAMPLES)}

StoredHistory(counts) ==
    [j \in DOMAIN counts |-> Sample(counts[j], IF j = 1 THEN 0 ELSE 1)]

HistoryFileOfA == _get_cache_file(HistoryKeyPrefix \o <<"a">>)

SpikeDirectories ==
    {EmptyDict, [f \in {HistoryFileOfA} |-> CorruptFile(1)]}
    \cup { [f \in {HistoryFileOfA} |->
               CacheFile(1, json_dump(PyList(StoredHistory(counts))), 1)] :
             counts \in StoredCounts }

SpikeCounts == {0, 1, 20}

AnalyzeInputs ==
    { [keywords |-> <<<<"a">>, <<"b">>>>,
       keyword_counts |-> [k \in {<<"a">>} |-> 20]],
      [keywords |-> <<<<"a">>, <<"a">>>>,
       keyword_counts |-> [k \in {<<"a">>} |-> 1]],
      [keywords |-> <<<<"a", " ", "b">>, <<"a", "_", "b">>>>,
       keyword_counts |-> EmptyDict],
      [keywords |-> <<>>,
       keyword_counts |-> [k \in {<<"a">>} |-> 1]] }

InitSpike ==
    /\ now = 1
    /\ \E files \in SpikeDirectories : cache = Cache(DefaultMaxEntries, files)
    /\ last = NoOp
    /\ lastSet = EmptyDict
    /\ writes = <<>>
    /\ feed = FeedSource(ConfiguredMirrors)
    /\ call = IdleCall
    /\ agg = IdleAgg
    /\ spike = IdleSpike
    /\ race = IdleRace

SpikeReturned == spike.pc \in {"idle", "done"}

CalculateSpike(keyword, current_count) ==
    /\ SpikeReturned /\ spike.n < MaxSpikeCalls
    /\ \E o \in calculate_spike(cache, keyword, current_count, now) :
         /\ cache' = o.cache
         /\ spike' = [IdleSpike EXCEPT
                         !.pc = "done", !.fn = "calculate_spike", !.n = spike.n + 1,
                         !.calls = <<CallRecord(keyword, current_count, now, o)>>]
    /\ UNCHANGED <<now, cacheHist, feed, call, agg>>

\* the call of analyze_keywords: results = {}
AnalyzeKeywords(keywords, keyword_counts) ==
    /\ SpikeReturned /\ spike.n < MaxSpikeCalls
    /\ spike' = [IdleSpike EXCEPT
                    !.pc = "for", !.fn = "analyze_keywords", !.n = spike.n + 1,
                    !.keywords = keywords, !.keyword_counts = keyword_counts,
                    !.i = 1]
    /\ UNCHANGED <<now, cache, cacheHist, feed, call, agg>>

\* the head of the for loop: the next keyword and its iteration, or return results
AnalyzeFor ==
    /\ spike.pc = "for"
    /\ IF spike.i <= Len(spike.keywords)
       THEN \E o \in calculate_spike(cache, spike.keywords[spike.i],
                                     keyword_counts_get(spike.keyword_counts,
                                                        spike.keywords[spike.i]),
                                     now) :
              /\ cache' = o.cache
              /\ spike' = analyze_iteration(spike, o, now)
       ELSE /\ spike' = [spike EXCEPT !.pc = "done"]
            /\ UNCHANGED cache
    /\ UNCHANGED <<now, cacheHist, feed, call, agg>>

TickSpike ==
    /\ \E t \in SpikeTimes : t > now /\ now' = t
    /\ UNCHANGED <<cache, cacheHist, feedVars>>

NextSpike ==
    \/ \E current_count \in SpikeCounts : CalculateSpike(<<"a">>, current_count)
    \/ \E input \in AnalyzeInputs : AnalyzeKeywords(input.keywords, input.keyword_counts)
    \/ AnalyzeFor
    \/ TickSpike

SpecSpike == InitSpike /\ [][NextSpike]_vars

(***************************************************************************)
(* Properties of calculate_spike under SpecSpike.  LastCall is the most    *)
(* recent calculate_spike call; the cache changes only in such a call, so  *)
(* what the call left in the cache is there in every state up to the next  *)
(* call.                                                                   *)
(***************************************************************************)
HasCall == spike.calls # <<>>
LastCall == spike.calls[Len(spike.calls)]
LastKey == HistoryKeyPrefix \o LastCall.keyword

\* the samples of the loaded list that are at most 24 hours old at the call
Recent(r) == { j \in DOMAIN r.loaded : r.loaded[j].timestamp > r.at - 86400 }

\* the value is held for the key in the memory tier and in the key's file
Persisted(key, history) ==
    /\ key \in DOMAIN cache._memory_cache
    /\ cache._memory_cache[key].data = PyList(history)
    /\ _get_cache_file(key) \in DOMAIN cache.files
    /\ cache.files[_get_cache_file(key)].parses
    /\ json_load(cache.files[_get_cache_file(key)].data) = PyList(history)

\* C15: a calculate_spike call that finds no sample of the last 24 hours in
\* the history it loads (so that fewer than 2 samples remain with the current
\* one) returns spike_percent 0, is_spike false, historical_avg current_count
\* and confidence "low", and leaves the one-sample history in the cache; so
\* does in particular a call that loads an empty history.
C15_InsufficientHistory ==
    (HasCall /\ Recent(LastCall) = {}) =>
        /\ LastCall.analysis.spike_percent = PyInt(0)
        /\ LastCall.analysis.is_spike = FALSE
        /\ LastCall.analysis.historical_avg = PyInt(LastCall.count)
        /\ LastCall.analysis.confidence = "low"
        /\ Persisted(LastKey, <<Sample(LastCall.count, LastCall.at)>>)

\* a first call with count 20 on an empty history has returned "low", and so
\* has, in another state, a call whose loaded samples were all pruned
C15_Witness ==
    /\ HasCall /\ spike.pc = "done" /\ LastCall.count = 20
    /\ LastCall.analysis.confidence = "low"
    /\ \/ LastCall.loaded = <<>> /\ spike.n = 1
       \/ LastCall.loaded # <<>> /\ Recent(LastCall) = {}

\* the counts of the samples of Recent(r), in order, and their sum
PriorCounts(r) ==
    LET kept == SelectSeq(r.loaded, LAMBDA h : h.timestamp > r.at - 86400)
    IN  [j \in DOMAIN kept |-> kept[j].count]

RECURSIVE Total(_)
Total(counts) == IF counts = <<>> THEN 0 ELSE counts[1] + Total(Tail(counts))

\* the natural number of one or two limbs, as an integer
Limbs(b) == IF b = <<>> THEN 0 ELSE IF Len(b) = 1 THEN b[1] ELSE b[1] + LimbBase * b[2]

\* the integer part of |x| * 4096 for a number x
Scaled(x) ==
    IF x.t = "int" THEN 4096 * (IF x.v < 0 THEN -x.v ELSE x.v)
    ELSE IF x.v.sign = 0 THEN 0
    ELSE IF x.v.e + 12 >= 0 THEN Limbs(big_shl(x.v.m, x.v.e + 12))
    ELSE Limbs(shift_out(x.v.m, -(x.v.e + 12), FALSE, FALSE).m)

SignOf(x) == IF x.t = "int" THEN (IF x.v > 0 THEN 1 ELSE IF x.v < 0 THEN -1 ELSE 0)
             ELSE x.v.sign

Abs(i) == IF i < 0 THEN -i ELSE i

\* x is num / den to within 1/4096, for integers num and den > 0
IsQuotient(x, num, den) ==
    /\ SignOf(x) = (IF num > 0 THEN 1 ELSE IF num < 0 THEN -1 ELSE 0)
    /\ Abs(Scaled(x) * den - 4096 * Abs(num)) <= den

\* C16: a calculate_spike call that keeps n >= 1 samples of the loaded
\* history, of sum S, beside the current one returns as historical_avg the
\* float S / n, and as spike_percent the float (current_count - avg) / avg
\* * 100, which is 100 * (n * current_count - S) / S up to rounding, when
\* S # 0, the int 0 when S = 0 and current_count = 0, and the int 100 when
\* S = 0 and current_count # 0.
C16_SpikePercent ==
    (HasCall /\ Recent(LastCall) # {}) =>
        LET counts == PriorCounts(LastCall)
            n == Len(counts)
            S == Total(counts)
            c == LastCall.count
            ret == LastCall.analysis
        IN  /\ ret.historical_avg.t = "float"
            /\ IsQuotient(ret.historical_avg, S, n)
            /\ S = 0 => ret.spike_percent = PyInt(IF c = 0 THEN 0 ELSE 100)
            /\ S # 0 => /\ ret.spike_percent.t = "float"
                        /\ IsQuotient(ret.spike_percent, 100 * (n * c - S), S)

\* the stored counts 1, 1, 0 (mean 2/3, not a float) followed by a call with
\* count 1, in another state the stored counts 0, 0 followed by a call with
\* count 20, have returned
C16_Witness ==
    /\ HasCall /\ spike.pc = "done"
    /\ \/ /\ PriorCounts(LastCall) = <<1, 1, 0>> /\ LastCall.count = 1
          /\ LastCall.analysis.spike_percent.t = "float"
       \/ /\ PriorCounts(LastCall) = <<0, 0>> /\ LastCall.count = 20
          /\ LastCall.analysis.spike_percent = PyInt(100)

\* C17: a calculate_spike call that keeps n >= 1 samples of the loaded
\* history, of sum S, beside the current one returns is_spike true exactly
\* when the rise over the mean is more than 50%: when 2 * n * current_count
\* > 3 * S for S > 0, and when current_count # 0 for S = 0.  A rise of
\* exactly 50% is not a spike.
C17_Threshold ==
    (HasCall /\ Recent(LastCall) # {}) =>
        LET counts == PriorCounts(LastCall)
            n == Len(counts)
            S == Total(counts)
            c == LastCall.count
        IN  LastCall.analysis.is_spike <=>
                (IF S > 0 THEN 2 * n * c > 3 * S ELSE c # 0)

\* the number of samples that remain after pruning, the current one included
Remaining(r) == Cardinality(Recent(r)) + 1

\* C18: calculate_spike returns confidence "high" exactly when more than 10
\* samples remain after pruning, the current one included, "medium" exactly
\* when 2 to 10 remain and "low" exactly when fewer than 2 remain, and never
\* another value.
C18_ConfidenceTiers ==
    HasCall =>
        /\ LastCall.analysis.confidence \in {"high", "medium", "low"}
        /\ LastCall.analysis.confidence = "high" <=> Remaining(LastCall) > 10
        /\ LastCall.analysis.confidence = "medium" <=>
               (2 <= Remaining(LastCall) /\ Remaining(LastCall) <= 10)
        /\ LastCall.analysis.confidence = "low" <=> Remaining(LastCall) < 2

\* a call that left exactly 11 samples has returned "high" after a call that
\* left exactly 10 and returned "medium"
C18_Witness ==
    /\ Len(spike.calls) = 2 /\ spike.pc = "done"
    /\ Remaining(spike.calls[1]) = 10 /\ spike.calls[1].analysis.confidence = "medium"
    /\ Remaining(spike.calls[2]) = 11 /\ spike.calls[2].analysis.confidence = "high"

\* the loaded samples at most 24 hours old at the call, then the current one
Updated(r) ==
    SelectSeq(r.loaded, LAMBDA h : h.timestamp > r.at - 86400)
        \o <<Sample(r.count, r.at)>>

\* C19: after a calculate_spike(keyword, c) call at time t, on the early
\* return as on the normal path, the cache holds for the keyword, written at
\* time t, the loaded history with c appended and the samples not newer than
\* t - 86400 removed: a non-empty list whose last sample is c at t and whose
\* samples all have timestamp > t - 86400.
C19_HistoryInvariant ==
    HasCall =>
        /\ Persisted(LastKey, Updated(LastCall))
        /\ cache._memory_cache[LastKey].timestamp = LastCall.at
        /\ cache.files[_get_cache_file(LastKey)].timestamp = LastCall.at
        /\ LET stored == cache._memory_cache[LastKey].data.v
           IN  /\ stored # <<>>
               /\ stored[Len(stored)] = Sample(LastCall.count, LastCall.at)
               /\ \A j \in DOMAIN stored : stored[j].timestamp > LastCall.at - 86400

\* a call at time 86400 has loaded a history whose first sample was taken at
\* time 0, dropped that sample, kept the others and returned on the normal path
C19_Witness ==
    /\ HasCall /\ spike.pc = "done" /\ LastCall.at = 86400
    /\ Len(LastCall.loaded) >= 2 /\ LastCall.loaded[1].timestamp = 0
    /\ Len(cache._memory_cache[LastKey].data.v) = Len(LastCall.loaded)
    /\ LastCall.analysis.confidence # "low"

(***************************************************************************)
(* Properties of analyze_keywords under SpecSpike.                         *)
(***************************************************************************)
\* the count analyze_keywords is to use for the keyword
CountGiven(keyword) ==
    IF keyword \in DOMAIN spike.keyword_counts THEN spike.keyword_counts[keyword]
    ELSE 0

\* the last iteration so far for the keyword
LastIteration(keyword) ==
    CHOOSE j \in DOMAIN spike.calls :
        /\ spike.keywords[j] = keyword
        /\ \A k \in DOMAIN spike.calls : spike.keywords[k] = keyword => k <= j

\* C20: analyze_keywords calls calculate_spike once per keyword of its input,
\* in order, with the count keyword_counts gives for the keyword, or 0 when
\* the keyword is missing from keyword_counts; results maps each keyword
\* handled so far to the dict its (last) call returned, and is returned with
\* every keyword of the input in it; each call, also for a missing keyword,
\* leaves the keyword's history in the cache with the sample of that count
\* at its end.
C20_AnalyzeKeywords ==
    spike.fn = "analyze_keywords" =>
        /\ Len(spike.calls) = (IF spike.pc = "done" THEN Len(spike.keywords)
                               ELSE spike.i - 1)
        /\ \A j \in DOMAIN spike.calls :
              /\ spike.calls[j].keyword = spike.keywords[j]
              /\ spike.calls[j].count = CountGiven(spike.keywords[j])
              /\ IF "current_count" \in DOMAIN spike.calls[j].analysis
                 THEN spike.calls[j].analysis.current_count = CountGiven(spike.keywords[j])
                 ELSE spike.calls[j].analysis.historical_avg =
                          PyInt(CountGiven(spike.keywords[j]))
        /\ DOMAIN spike.results = { spike.keywords[j] : j \in DOMAIN spike.calls }
        /\ \A keyword \in DOMAIN spike.results :
              spike.results[keyword] = spike.calls[LastIteration(keyword)].analysis
        /\ HasCall =>
              /\ LastKey \in DOMAIN cache._memory_cache
              /\ LET stored == cache._memory_cache[LastKey].data.v
                 IN  /\ stored # <<>>
                     /\ stored[Len(stored)] =
                            Sample(CountGiven(LastCall.keyword), LastCall.at)

\* analyze_keywords(["a", "b"], {"a": 20}) has returned: "b" has the result of
\* a call with count 0 and a history of one sample of count 0
C20_Witness ==
    /\ spike.fn = "analyze_keywords" /\ spike.pc = "done"
    /\ spike.keywords = <<<<"a">>, <<"b">>>>
    /\ DOMAIN spike.results = {<<"a">>, <<"b">>}
    /\ spike.results[<<"b">>].historical_avg = PyInt(0)
    /\ spike.results[<<"a">>].is_spike
    /\ cache._memory_cache[HistoryKeyPrefix \o <<"b">>].data.v
           = <<Sample(0, spike.calls[2].at)>>

(***************************************************************************)
(* Properties of the rate limiter and of the mirror rotation, under        *)
(* SpecFeed.  A fetch calls _is_rate_limited(source) when it begins and    *)
(* has missed the cache; it returns [] at once when the answer is true and *)
(* goes on to its first request when the answer is false.                  *)
(***************************************************************************)
\* this step is the beginning of a fetch that missed the cache
ChecksCooldown == call'.n = call.n + 1 /\ call'.was_miss

\* the step's _is_rate_limited call returned true
AnsweredLimited == ChecksCooldown /\ call'.pc = "done" /\ call'.ret = <<>>

\* C21: _is_rate_limited(source) returns true exactly when a deadline is
\* stored for the source and now < deadline, and then changes nothing; when
\* the stored deadline has passed (now >= deadline) it returns false and
\* removes the deadline of that source only; and a stored deadline is never
\* removed by any other step, the passing of time included.
C21_CooldownCheck ==
    [][ /\ ChecksCooldown =>
             LET source == call'.source
                 stored == source \in DOMAIN feed.rate_limit_until
             IN  /\ AnsweredLimited <=>
                        (stored /\ now < feed.rate_limit_until[source])
                 /\ AnsweredLimited => feed' = feed
                 /\ (stored /\ now >= feed.rate_limit_until[source]) =>
                        feed'.rate_limit_until = Remove(feed.rate_limit_until, source)
        /\ \A source \in DOMAIN feed.rate_limit_until :
              source \notin DOMAIN feed'.rate_limit_until =>
                  /\ ChecksCooldown /\ call'.source = source
                  /\ now >= feed.rate_limit_until[source]
      ]_vars

\* a fetch_nitter_search call began at the very deadline of the cooldown a 429
\* had set: the check answered false, removed the deadline, and the call is at
\* its first attempt
C21_Witness ==
    /\ IsNitterCall /\ call.was_miss /\ call.had_deadline /\ ~call.was_limited
    /\ now = RATE_LIMIT_DURATION
    /\ call.pc = "loop" /\ call.contacted = <<>>
    /\ Nitter \notin DOMAIN feed.rate_limit_until

\* this step is a request of the running fetch, answered with kind
Answered(kind) ==
    /\ call'.n = call.n /\ Len(call'.answers) = Len(call.answers) + 1
    /\ call'.answers[Len(call'.answers)] = kind

\* C22: a deadline of rate_limit_until is created or changed only by a step in
\* which a request of a fetch for that source is answered 429, and it then
\* becomes now + 300; a step in which the request is answered with a
\* successful response, with a transport error (httpx.HTTPError) or with
\* another exception (a parse error) leaves every stored deadline as it was.
C22_CooldownOnly429 ==
    [][ /\ \A source \in DOMAIN feed'.rate_limit_until :
              (\/ source \notin DOMAIN feed.rate_limit_until
               \/ feed'.rate_limit_until[source] # feed.rate_limit_until[source])
              => /\ Answered("429") /\ call.source = source
                 /\ feed'.rate_limit_until[source] = now + RATE_LIMIT_DURATION
        /\ (Answered("ok") \/ Answered("HTTPError") \/ Answered("Exception"))
              => feed'.rate_limit_until = feed.rate_limit_until
        /\ Answered("429") => call.source \in DOMAIN feed'.rate_limit_until
      ]_vars

\* a fetch_nitter_search call met a transport error, slept, and then a 429:
\* the deadline stored is the one of the 429, and only the mirrors' source
\* has one
C22_Witness ==
    /\ IsNitterCall /\ call.pc = "loop" /\ call.answers = <<"HTTPError", "429">>
    /\ now > 0
    /\ DOMAIN feed.rate_limit_until = {Nitter}
    /\ feed.rate_limit_until[Nitter] = now + RATE_LIMIT_DURATION

\* this step is an attempt of fetch_nitter_search that ends in _rotate_nitter
Rotates ==
    /\ call.fn = "fetch_nitter_search"
    /\ Answered("429") \/ Answered("HTTPError") \/ Answered("Exception")

\* C23: _rotate_nitter moves current_nitter_idx from i to (i + 1) mod N when
\* N > 1 mirrors are configured and leaves it when one mirror or none is
\* configured; nothing else moves the pointer, and the pointer stays an index
\* of nitter_urls.
C23_RotationStep ==
    [][ LET N == Len(feed.nitter_urls)
            i == feed.current_nitter_idx
        IN  /\ feed'.nitter_urls = feed.nitter_urls
            /\ Rotates => feed'.current_nitter_idx = (IF N > 1 THEN (i + 1) % N ELSE i)
            /\ ~Rotates => feed'.current_nitter_idx = i
            /\ feed'.current_nitter_idx \in 0..(IF N > 1 THEN N - 1 ELSE 0)
      ]_vars

\* with three mirrors the pointer has gone from 2 round to 0 in one failed
\* attempt; in another state, with one mirror, a failed attempt has left it at 0
C23_Witness ==
    /\ IsNitterCall /\ Len(call.answers) = 1 /\ call.answers[1] # "ok"
    /\ feed.current_nitter_idx = 0
    /\ \/ Len(feed.nitter_urls) = 3 /\ call.start_idx = 2
       \/ Len(feed.nitter_urls) = 1 /\ call.start_idx = 0

(***************************************************************************)
(* SpecCorrupt: the cache and the caller of Spec, the directory holding,   *)
(* from an earlier run or another program, a file under the name of the    *)
(* two keys: one that json.load or the two .get calls raise on (not JSON,  *)
(* JSON that is not an object, a 'timestamp' that is not a number), or a   *)
(* JSON object with a 'timestamp' and no 'data'; and a file notes.txt.     *)
(***************************************************************************)
ForeignFiles == { CorruptFile(0), FileWithoutData(0, 0) }
OtherFiles == { <<"n", "o", "t", "e", "s", ".", "t", "x", "t">> }

InitCorrupt ==
    /\ now = 0
    /\ \E file \in ForeignFiles :
         cache = [Cache(DefaultMaxEntries,
                        [f \in { _get_cache_file(key) : key \in Keys } |-> file])
                    EXCEPT !.others = OtherFiles]
    /\ last = NoOp
    /\ lastSet = EmptyDict
    /\ writes = <<>>
    /\ feed = FeedSource(<<>>)
    /\ call = IdleCall
    /\ agg = IdleAgg
    /\ spike = IdleSpike
    /\ race = IdleRace

SpecCorrupt == InitCorrupt /\ [][Next]_vars

\* the get found a file json.load or the .get calls raise on
FoundUnreadable == last.op = "get" /\ last.file # <<>> /\ ~last.file[1].parses
\* the get found a JSON object without 'data'
FoundWithoutData ==
    /\ last.op = "get" /\ last.file # <<>>
    /\ last.file[1].parses /\ last.file[1].data = NoData
FileGone(key) == _get_cache_file(key) \notin DOMAIN cache.files

\* C24 as stated: a get on a key whose file is unreadable, does not parse, or
\* parses to something other than a {timestamp, data} mapping returns None
\* and has deleted the file.
C24_CorruptDeleted ==
    (FoundUnreadable \/ FoundWithoutData) => (last.ret = None /\ FileGone(last.key))

\* C24, amended: a get on a key whose file is unreadable, does not parse, or
\* parses to something other than a mapping with a numeric timestamp returns
\* None and has deleted the file; a file that parses to a mapping with a
\* timestamp and no data is read as an entry holding None: the get returns
\* None, and has deleted the file only when now - timestamp >= ttl.
C24_CorruptFile ==
    /\ FoundUnreadable => (last.ret = None /\ FileGone(last.key))
    /\ FoundWithoutData =>
          /\ last.ret = None
          /\ FileGone(last.key) <=> (last.t - last.file[1].timestamp >= last.ttl)

\* a get with ttl 2 at time 1 has found the unreadable file, returned None and
\* removed it; in another state it has found the file without data and kept it
C24_Witness ==
    /\ last.op = "get" /\ last.t = 1 /\ last.ttl = 2 /\ lastSet = EmptyDict
    /\ last.ret = None
    /\ \/ FoundUnreadable /\ FileGone(last.key)
       \/ FoundWithoutData /\ ~FileGone(last.key)

\* C25 as stated: after delete(key) the key is in neither tier, and a get of
\* the key returns None until the key itself is set again; after clear() the
\* same holds of every key, and only the "*.json" files are removed.
C25_GoneUntilKeySet ==
    /\ last.op = "delete" => AbsentInBothTiers(last.key)
    /\ last.op = "clear" =>
          /\ \A key \in Keys : AbsentInBothTiers(key)
          /\ cache.others = OtherFiles
    /\ (last.op = "get" /\ last.key \in last.gone) => last.ret = None

\* C25, amended: after delete(key) the key is in neither tier, and stays so,
\* a get of the key returning None for every ttl, until the key or another
\* key of the same sanitized file name is set; after clear() the same holds
\* of every key, no "*.json" file is left, and the other files of the
\* directory are all still there.
C25_DeleteAndClear ==
    /\ last.op = "delete" => AbsentInBothTiers(last.key)
    /\ last.op = "clear" =>
          /\ cache._memory_cache = EmptyDict /\ cache.files = EmptyDict
          /\ cache.others = OtherFiles
    /\ \A key \in last.goneFile : AbsentInBothTiers(key)
    /\ (last.op = "get" /\ last.key \in last.goneFile) => last.ret = None

\* a key that had been set and read was deleted, and a get of it with ttl 2
\* has returned None
C25_Witness ==
    /\ last.op = "get" /\ last.key \in last.goneFile /\ last.ttl = 2
    /\ last.key \in DOMAIN lastSet /\ last.t = lastSet[last.key].t
    /\ last.ret = None /\ ~last.hadMem /\ ~last.hadFile

(***************************************************************************)
(* SpecAlias: one Cache(max_entries = 200), its directory empty, and a     *)
(* caller of three keys, each key always set to its own value: "a b" and   *)
(* "a_b", which have the file name a_b, and "c d", which has the file name *)
(* c_d.  The caller sets the three, reads "a b" and "c d", deletes "a b".  *)
(***************************************************************************)
KeyA == <<"a", " ", "b">>
KeyB == <<"a", "_", "b">>
KeyC == <<"c", " ", "d">>
AliasKeys == {KeyA, KeyB, KeyC}

ValueOf(key) == IF key = KeyA THEN PyList(<<1>>)
                ELSE IF key = KeyB THEN PyTuple(<<2>>)
                ELSE PyList(<<3>>)

NextAlias ==
    \/ \E key \in AliasKeys : Set(key, ValueOf(key))
    \/ \E key \in {KeyA, KeyC}, ttl \in 0..MaxTTL : Get(key, ttl)
    \/ Delete(KeyA)
    \/ Tick

SpecAlias == Init /\ [][NextAlias]_vars

\* the other key of the same file name, for "a b" and "a_b"
Twin(key) == IF key = KeyA THEN KeyB ELSE KeyA

\* what json.load gives for the value as json.dump wrote it
ReadBack(value) == IF value.t = "tuple" THEN PyList(value.v) ELSE value

\* the operation found the file as the twin key's set wrote it
FoundTwinFile ==
    /\ last.key \in {KeyA, KeyB} /\ last.file # <<>>
    /\ last.file[1].parses
    /\ json_load(last.file[1].data) = ReadBack(ValueOf(Twin(last.key)))

\* the get found no memory entry of its key fresh under its ttl
NoFreshMemory ==
    last.mem = <<>> \/ last.t - last.mem[1].timestamp >= last.ttl

\* C26 as stated: a get(A, ttl) that finds the file as set(B, v) wrote it, A
\* having no fresh memory entry, returns v while the entry is fresh.
C26_AliasReturnsValue ==
    (last.op = "get" /\ FoundTwinFile /\ NoFreshMemory
        /\ last.t - last.file[1].timestamp < last.ttl)
    => last.ret = ValueOf(Twin(last.key))

\* C26, amended: a get(A, ttl) that finds the file as set(B, v) wrote it, A
\* having no fresh memory entry, returns v as JSON reads it back (a tuple as
\* a list) while the entry is fresh, and otherwise returns None and removes
\* the file; a delete of A removes the file as well; and a get of a key
\* returns None or a value that was set for a key of the same file name,
\* never the value of a key of another file name.
C26_Aliasing ==
    /\ (last.op = "get" /\ FoundTwinFile /\ NoFreshMemory) =>
          IF last.t - last.file[1].timestamp < last.ttl
          THEN last.ret = ReadBack(ValueOf(Twin(last.key)))
          ELSE last.ret = None /\ FileGone(last.key)
    /\ (last.op = "delete" /\ FoundTwinFile) =>
          /\ FileGone(last.key) /\ FileGone(Twin(last.key))
    /\ last.op = "get" =>
          IF last.key = KeyC
          THEN last.ret \in {None, ValueOf(KeyC)}
          ELSE last.ret \in {None, ValueOf(KeyA), ValueOf(KeyB),
                             ReadBack(ValueOf(KeyB))}

\* get("a b", 2) has read the entry of "a_b", one second old, from the file
\* while "c d" had its own entry; in another state get("a b", 1) has found
\* that entry expired and removed the file
C26_Witness ==
    /\ last.op = "get" /\ last.key = KeyA /\ FoundTwinFile /\ last.mem = <<>>
    /\ last.t - last.file[1].timestamp = 1
    /\ KeyC \in DOMAIN cache._memory_cache
    /\ \/ last.ttl = 2 /\ last.ret = PyList(<<2>>)
       \/ last.ttl = 1 /\ last.ret = None /\ FileGone(KeyB)

(***************************************************************************)
(* SpecRace: one Cache(max_entries = 200), its directory empty or holding  *)
(* an entry of the key written at time 0 by an earlier run, shared by two  *)
(* threads that call set and get on one key, a statement at a time and in  *)
(* any order, at most MaxRaceOps calls in all.  The process may be         *)
(* interrupted at any point and started again: the memory tier and the     *)
(* running calls are lost, the directory stays.  began numbers the calls   *)
(* in the order they began.                                                *)
(***************************************************************************)
MaxRaceOps == 3

RaceKey == <<"a">>
RaceValues == { PyList(<<1>>), PyList(<<2>>) }
RaceTtls == {1, 2}

EarlierValue == PyList(<<0>>)

RaceDirectories ==
    { EmptyDict,
      Put(EmptyDict, _get_cache_file(RaceKey),
          CacheFile(0, json_dump(EarlierValue), 0)) }

InitRace ==
    /\ now = 0
    /\ \E files \in RaceDirectories : cache = Cache(DefaultMaxEntries, files)
    /\ last = NoOp
    /\ lastSet = EmptyDict
    /\ writes = <<>>
    /\ feed = FeedSource(<<>>)
    /\ call = IdleCall
    /\ agg = IdleAgg
    /\ spike = IdleSpike
    /\ race = IdleRace

Begun == LET n(th) == race[th].began
         IN  IF n(1) > n(2) THEN n(1) ELSE n(2)

Free(th) == race[th].pc \in {"idle", "done", "raised"}

RaceSet(th, value) ==
    /\ Free(th) /\ Begun < MaxRaceOps
    /\ race' = [race EXCEPT ![th] = [IdleFrame EXCEPT
                   !.pc = "timestamp", !.op = "set", !.key = RaceKey,
                   !.value = value, !.began = Begun + 1]]
    /\ UNCHANGED <<now, cache, last, lastSet, writes, feed, call, agg, spike>>

RaceGet(th, ttl) ==
    /\ Free(th) /\ Begun < MaxRaceOps
    /\ race' = [race EXCEPT ![th] = [IdleFrame EXCEPT
                   !.pc = "memory_check", !.op = "get", !.key = RaceKey,
                   !.ttl = ttl, !.began = Begun + 1]]
    /\ UNCHANGED <<now, cache, last, lastSet, writes, feed, call, agg, spike>>

\* the next statement of the set of thread th
SetStep(th) ==
    LET fr == race[th] IN
    /\ fr.op = "set"
    /\ \/ /\ fr.pc = "timestamp"
          /\ race' = [race EXCEPT ![th] = set_timestamp(fr, now)]
          /\ UNCHANGED cache
       \/ /\ fr.pc = "memory"
          /\ cache' = set_memory(cache, fr)
          /\ race' = [race EXCEPT ![th].pc = "open"]
       \/ /\ fr.pc = "open"
          /\ cache' = set_open(cache, fr, now)
          /\ race' = [race EXCEPT ![th].pc = "dump"]
       \/ /\ fr.pc = "dump"
          /\ \E c \in set_dump(cache, fr, now) : cache' = c
          /\ race' = [race EXCEPT ![th].pc = "done"]
    /\ UNCHANGED <<now, last, lastSet, writes, feed, call, agg, spike>>

\* the next statement of the get of thread th
GetStep(th) ==
    LET fr == race[th] IN
    /\ fr.op = "get"
    /\ \/ /\ fr.pc = "memory_check"
          /\ race' = [race EXCEPT ![th] = get_memory(cache, fr, now)]
          /\ UNCHANGED cache
       \/ /\ fr.pc = "del"
          /\ IF fr.key \in DOMAIN cache._memory_cache
             THEN /\ cache' = [cache EXCEPT !._memory_cache = Remove(@, fr.key)]
                  /\ race' = [race EXCEPT ![th].pc = "exists"]
             ELSE /\ race' = [race EXCEPT ![th].pc = "raised"]
                  /\ UNCHANGED cache
       \/ /\ fr.pc = "exists"
          /\ race' = [race EXCEPT ![th] = get_exists(cache, fr)]
          /\ UNCHANGED cache
       \/ /\ fr.pc = "load"
          /\ race' = [race EXCEPT ![th] = get_load(cache, fr)]
          /\ UNCHANGED cache
       \/ /\ fr.pc = "judge"
          /\ cache' = get_judge(cache, fr, now).cache
          /\ race' = unlink_orphans(race, th, get_judge(cache, fr, now).frame)
       \/ /\ fr.pc = "except"
          /\ cache' = get_except(cache, fr).cache
          /\ race' = unlink_orphans(race, th, get_except(cache, fr).frame)
    /\ UNCHANGED <<now, last, lastSet, writes, feed, call, agg, spike>>

\* the process is interrupted and started again
Restart ==
    /\ \E th \in Threads : ~Free(th)
    /\ cache' = [cache EXCEPT !._memory_cache = EmptyDict]
    /\ race' = [th \in Threads |->
                  IF Free(th) THEN race[th] ELSE [race[th] EXCEPT !.pc = "raised"]]
    /\ UNCHANGED <<now, last, lastSet, writes, feed, call, agg, spike>>

NextRace ==
    \/ \E th \in Threads, value \in RaceValues : RaceSet(th, value)
    \/ \E th \in Threads, ttl \in RaceTtls : RaceGet(th, ttl)
    \/ \E th \in Threads : SetStep(th)
    \/ \E th \in Threads : GetStep(th)
    \/ Restart
    \/ Tick

SpecRace == InitRace /\ [][NextRace]_vars

(***************************************************************************)
(* Properties of concurrent calls, under SpecRace.                         *)
(***************************************************************************)
\* each thread made one call, a set, and both calls have returned
BothSet ==
    /\ Begun = 2
    /\ \A th \in Threads : race[th].op = "set" /\ race[th].pc = "done"

\* the memory tier holds what the set of thread th stored
InMemory(th) ==
    /\ race[th].key \in DOMAIN cache._memory_cache
    /\ cache._memory_cache[race[th].key] =
           [data |-> race[th].value, timestamp |-> race[th].timestamp]

\* the file tier holds what the set of thread th wrote
InFile(th) ==
    LET cache_file == _get_cache_file(race[th].key) IN
    /\ cache_file \in DOMAIN cache.files
    /\ cache.files[cache_file].parses
    /\ cache.files[cache_file].timestamp = race[th].timestamp
    /\ cache.files[cache_file].data = json_dump(race[th].value)

\* C27: when two threads ran set on the same key with their statements
\* interleaved and both have returned, the memory tier and the file tier
\* hold the value and the timestamp of the same write, and no write has a
\* later timestamp than that one.
C27_LastWriteWins ==
    BothSet =>
        \E th \in Threads :
            /\ InMemory(th) /\ InFile(th)
            /\ \A o \in Threads : race[o].timestamp <= race[th].timestamp

\* C28: a get that reads the file of a key, with other calls running or
\* after an interruption of the process in the middle of a set, reads a
\* complete entry: never an empty or partially written file.
C28_AtomicSet ==
    \A th \in Threads :
        (race[th].op = "get" /\ race[th].read # <<>>) => race[th].read[1].parses

\* thread g made a get and thread w a set, the only calls so far, and both
\* have returned
GetAndSet(g, w) ==
    /\ Begun = 2
    /\ race[g].op = "get" /\ race[g].pc = "done"
    /\ race[w].op = "set" /\ race[w].pc = "done"

\* C29: when a get and a set of the same key ran with their statements
\* interleaved in any order and both have returned, then as long as the
\* entry the set wrote is within the ttl of the get it is present in the
\* memory tier and in the file tier, and a get with that ttl returns its
\* value.
C29_GetSetTolerance ==
    \A g, w \in Threads :
        (GetAndSet(g, w) /\ now - race[w].timestamp < race[g].ttl) =>
            /\ InMemory(w) /\ InFile(w)
            /\ get(cache, race[w].key, race[g].ttl, now).ret = race[w].value

(***************************************************************************)
(* More properties of the fetches, under SpecFeed.                         *)
(***************************************************************************)
\* this step is the beginning of a fetch
Begins == call'.n = call.n + 1

\* C31: the mirror pointer is not reset between fetches: the step that begins
\* a fetch finds the pointer where the last step of the fetch before left it
\* and does not move it, whether the fetch is answered from the cache, stops
\* at the cooldown check or goes on to its first request; nothing moves it
\* between two fetches; and an attempt of fetch_nitter_search that is
\* answered successfully leaves the pointer on the mirror it contacted.
C31_StickyRotation ==
    [][ /\ Begins => /\ feed'.current_nitter_idx = feed.current_nitter_idx
                     /\ call'.start_idx = feed.current_nitter_idx
        /\ (Returned /\ ~Begins) => feed'.current_nitter_idx = feed.current_nitter_idx
        /\ (IsNitterCall /\ Answered("ok")) =>
              /\ feed'.current_nitter_idx = feed.current_nitter_idx
              /\ call'.contacted[Len(call'.contacted)] = _get_nitter_url(feed')
      ]_vars

\* the second fetch_nitter_search began with the pointer on the second mirror,
\* where the first had left it, failed there and succeeded on the third
C31_Witness ==
    /\ IsNitterCall /\ call.n = 2 /\ call.pc = "done"
    /\ Len(feed.nitter_urls) = 3 /\ call.start_idx = 1
    /\ call.answers = <<"HTTPError", "ok">>
    /\ feed.current_nitter_idx = 2
    /\ call.contacted = <<feed.nitter_urls[2], feed.nitter_urls[3]>>

\* C33: a fetch whose cache.get(cache_key, ttl = 1800) gives a value returns
\* that value at once: no request is made, and the FeedSource (the mirror
\* pointer and every stored deadline, expired ones included) is left as it
\* was, also while the source is rate-limited; only a fetch that missed the
\* cache is ever answered by the rate limiter or makes a request.
C33_CacheFirst ==
    [][ Begins =>
          LET cached == get(cache, call'.cache_key, CACHE_TTL, now) IN
          /\ cache' = cached.cache
          /\ call'.was_miss <=> (cached.ret = None)
          /\ ~call'.was_miss =>
                /\ call'.pc = "done" /\ call'.ret = cached.ret.v
                /\ call'.contacted = <<>>
                /\ feed' = feed
          /\ (call'.pc # "done" \/ feed' # feed) => call'.was_miss
      ]_vars

\* a fetch_nitter_search call was answered from the cache while the cooldown
\* of the mirrors was in force, or when its deadline had passed and is still
\* stored
C33_Witness ==
    /\ IsNitterCall /\ call.pc = "done" /\ ~call.was_miss /\ call.had_deadline
    /\ call.ret # <<>> /\ call.contacted = <<>>
    /\ Nitter \in DOMAIN feed.rate_limit_until

\* the mirrors' source has a deadline and it has not passed
NitterCooling ==
    Nitter \in DOMAIN feed.rate_limit_until /\ now < feed.rate_limit_until[Nitter]

\* C36: the mirrors share one cooldown: a 429 from whichever mirror an attempt
\* of fetch_nitter_search contacted sets the deadline of "nitter" to now + 300;
\* no other step of the call changes or removes that deadline, a successful
\* answer of a later mirror included; and a fetch_nitter_search call that
\* misses the cache before the deadline returns [] and contacts no mirror.
C36_SharedCooldown ==
    [][ /\ (IsNitterCall /\ Answered("429")) =>
              /\ Nitter \in DOMAIN feed'.rate_limit_until
              /\ feed'.rate_limit_until[Nitter] = now + RATE_LIMIT_DURATION
        /\ (IsNitterCall /\ call'.n = call.n /\ ~Answered("429")) =>
              feed'.rate_limit_until = feed.rate_limit_until
        /\ (Begins /\ call'.fn = "fetch_nitter_search" /\ call'.was_miss
                /\ NitterCooling) =>
              /\ call'.pc = "done" /\ call'.ret = <<>> /\ call'.contacted = <<>>
              /\ feed' = feed
      ]_vars

\* with three mirrors, a first call was answered 429 by the first mirror and
\* successfully, with an empty feed, by the second (one rotation: the pointer
\* is on the second mirror), and a second call, before the deadline, returned
\* [] without a request: the third mirror was never contacted
C36_Witness ==
    /\ IsNitterCall /\ call.n = 2 /\ call.was_miss /\ call.was_limited
    /\ call.pc = "done" /\ call.ret = <<>> /\ call.contacted = <<>>
    /\ Len(feed.nitter_urls) = 3 /\ feed.current_nitter_idx = 1
    /\ cache._memory_cache = EmptyDict
    /\ NitterCooling

\* C37: with no mirror configured, a fetch_nitter_search call that misses the
\* cache makes no request (the default URL of _get_nitter_url is not
\* contacted), returns [], writes no cache entry and records no cooldown.
C37_NoMirrors ==
    (IsNitterCall /\ feed.nitter_urls = <<>> /\ call.was_miss) =>
        /\ call.contacted = <<>> /\ call.answers = <<>>
        /\ call.pc \in {"loop", "done"}
        /\ call.pc = "done" => call.ret = <<>>
        /\ ~call.wrote
        /\ call.cache_key \notin DOMAIN cache._memory_cache
        /\ _get_cache_file(call.cache_key) \notin DOMAIN cache.files
        /\ Nitter \notin DOMAIN feed.rate_limit_until

\* a fetch_nitter_search call with no mirror configured has returned, after
\* a fetch of another source was answered 429
C37_Witness ==
    /\ IsNitterCall /\ feed.nitter_urls = <<>> /\ call.was_miss
    /\ call.pc = "done" /\ call.n = 2
    /\ GoogleNews \in DOMAIN feed.rate_limit_until

(***************************************************************************)
(* More properties of the cache, under Spec.                               *)
(***************************************************************************)
\* the last operation was a get that found a memory entry fresh under its ttl
FoundFreshMemory ==
    last.op = "get" /\ last.hadMem /\ last.t - last.mem[1].timestamp < last.ttl

\* the last operation was a get that found a file entry fresh under its ttl
FoundFreshFile ==
    /\ last.op = "get" /\ last.hadFile /\ last.file[1].parses
    /\ last.t - last.file[1].timestamp < last.ttl

\* the file of the key of the last operation is as that operation found it
FileUntouched ==
    LET cache_file == _get_cache_file(last.key) IN
    IF last.hadFile
    THEN cache_file \in DOMAIN cache.files /\ cache.files[cache_file] = last.file[1]
    ELSE cache_file \notin DOMAIN cache.files

\* C32: get(key, ttl) returns a memory entry that is fresh under ttl and
\* touches neither tier; otherwise the memory entry, if any, is evicted and
\* the file is read: a fresh file entry is returned and becomes the memory
\* entry of key with the timestamp stored in the file, the file staying; a
\* stale file entry is deleted and None returned, key having no memory entry.
C32_FallThrough ==
    last.op = "get" =>
        IF FoundFreshMemory
        THEN /\ last.ret = last.mem[1].data
             /\ cache._memory_cache[last.key] = last.mem[1]
             /\ FileUntouched
        ELSE IF FoundFreshFile
        THEN /\ last.ret = json_load(last.file[1].data)
             /\ cache._memory_cache[last.key] =
                    [data |-> json_load(last.file[1].data),
                     timestamp |-> last.file[1].timestamp]
             /\ FileUntouched
        ELSE /\ last.ret = None
             /\ last.key \notin DOMAIN cache._memory_cache
             /\ _get_cache_file(last.key) \notin DOMAIN cache.files

\* a get found the memory entry of its key stale and the file fresh, written
\* before the time of the get: the promoted entry has the file's timestamp
C32_Witness ==
    /\ last.op = "get" /\ last.hadMem /\ ~FoundFreshMemory /\ FoundFreshFile
    /\ last.file[1].timestamp < last.t
    /\ cache._memory_cache[last.key].timestamp = last.file[1].timestamp
    /\ last.ret # None

(***************************************************************************)
(* SpecSanitize: one Cache(max_entries = 200) with an empty directory and  *)
(* one set, of any key of at most MaxKeyLen characters over an alphabet of *)
(* ASCII letters and digits, "-", "_", ASCII punctuation and whitespace,   *)
(* letters and digits outside ASCII, and a symbol outside ASCII (U20AC is  *)
(* the euro sign, for which str.isalnum() is false).  The name of the file *)
(* the set wrote is _get_cache_file(key).                                  *)
(***************************************************************************)
MaxKeyLen == 2

SanitizeAlphabet ==
    {"a", "Z", "5", "-", "_", " ", ".", "/", "U00E9", "U0663", "U20AC"}

SanitizeKeys ==
    UNION { [1..n -> SanitizeAlphabet] : n \in 0..MaxKeyLen }

SanitizeSet(key) ==
    /\ last.op = "none"
    /\ Set(key, PyList(<<1>>))

NextSanitize == \E key \in SanitizeKeys : SanitizeSet(key)

SpecSanitize == Init /\ [][NextSanitize]_vars

\* the characters of the class [A-Za-z0-9_-]
InClass(c) == c \in AsciiLower \cup AsciiUpper \cup AsciiDigit \cup {"-", "_"}

\* the file written is the only file and its name is name
WroteOnly(name) == DOMAIN cache.files = {name}

\* C34, as claimed: the file name of a key is the key with every character
\* outside [A-Za-z0-9_-] replaced by "_" and every character inside it kept.
C34_AsciiClassOnly ==
    last.op = "set" =>
        WroteOnly([i \in 1..Len(last.key) |->
                      IF InClass(last.key[i]) THEN last.key[i] ELSE "_"])

\* C34: the file name of a key is the key with every character kept that is in
\* [A-Za-z0-9_-] or is a letter or digit outside ASCII, and every other
\* character (ASCII punctuation and whitespace, symbols outside ASCII)
\* replaced by "_".
C34_Sanitization ==
    last.op = "set" =>
        WroteOnly([i \in 1..Len(last.key) |->
                      IF InClass(last.key[i]) \/ last.key[i] \in {"U00E9", "U0663"}
                      THEN last.key[i] ELSE "_"])

\* a key with a letter outside ASCII and a slash was set: the letter is kept
\* and the slash replaced
C34_Witness ==
    /\ last.op = "set" /\ last.key = <<"U00E9", "/">>
    /\ WroteOnly(<<"U00E9", "_">>)

(***************************************************************************)
(* SpecRotate: one FeedSource with 1 to MaxMirrors mirrors and two threads *)
(* whose fetches fail and call _rotate_nitter, at most MaxRotations times  *)
(* each.  The assignment of _rotate_nitter reads current_nitter_idx and    *)
(* stores the new value in two steps, and the other thread may run in      *)
(* between.  A thread's frame: pc, idx (the value it read), rotations (the *)
(* calls it has finished).                                                 *)
(***************************************************************************)
MaxRotations == 3

IdleRotation == [pc |-> "idle", idx |-> 0, rotations |-> 0]

InitRotate ==
    /\ now = 0
    /\ cache = Cache(DefaultMaxEntries, EmptyDict)
    /\ last = NoOp
    /\ lastSet = EmptyDict
    /\ writes = <<>>
    /\ \E n \in 1..MaxMirrors : feed = FeedSource(Mirrors(n))
    /\ call = IdleCall
    /\ agg = IdleAgg
    /\ spike = IdleSpike
    /\ race = [th \in Threads |-> IdleRotation]

\* thread th reads self.current_nitter_idx
RotateLoad(th) ==
    /\ race[th].pc = "idle" /\ race[th].rotations < MaxRotations
    /\ race' = [race EXCEPT ![th].pc = "store", ![th].idx = feed.current_nitter_idx]
    /\ UNCHANGED <<now, cache, last, lastSet, writes, feed, call, agg, spike>>

\* thread th stores the value computed from what it read
RotateStore(th) ==
    /\ race[th].pc = "store"
    /\ feed' = _rotate_nitter([feed EXCEPT !.current_nitter_idx = race[th].idx])
    /\ race' = [race EXCEPT ![th].pc = "idle", ![th].rotations = @ + 1]
    /\ UNCHANGED <<now, cache, last, lastSet, writes, call, agg, spike>>

NextRotate ==
    \/ \E th \in Threads : RotateLoad(th)
    \/ \E th \in Threads : RotateStore(th)

SpecRotate == InitRotate /\ [][NextRotate]_vars

\* C35: with N >= 1 mirrors configured, 0 <= current_nitter_idx < N in every
\* state, whatever the number of rotations and however the rotations of two
\* threads interleave.
C35_PointerRange ==
    Len(feed.nitter_urls) >= 1 =>
        /\ 0 <= feed.current_nitter_idx
        /\ feed.current_nitter_idx < Len(feed.nitter_urls)

\* with three mirrors, four rotations have finished and the pointer is at 0,
\* not at 1: a rotation that had read the pointer at the last mirror stored
\* its value after a rotation of the other thread had gone round to 0
C35_Witness ==
    /\ Len(feed.nitter_urls) = 3
    /\ race[1].rotations = 3 /\ race[2].rotations = 1
    /\ race[1].pc = "idle" /\ race[2].pc = "idle"
    /\ feed.current_nitter_idx = 0

(***************************************************************************)
(* SpecMem: one Cache(max_entries = 1), its directory empty, and a caller  *)
(* that sets and reads "a b" and "c d", whose files differ, so that each   *)
(* set can evict the file of the other key, and deletes "a_b", whose file  *)
(* is the file of "a b".  writes is the set of the keys whose file was     *)
(* removed by _cleanup, or by the delete of another key of the same file   *)
(* name, and that were not set since.                                      *)
(***************************************************************************)
InitMem ==
    /\ now = 0
    /\ cache = Cache(1, EmptyDict)
    /\ last = NoOp
    /\ lastSet = EmptyDict
    /\ writes = {}
    /\ feed = FeedSource(<<>>)
    /\ call = IdleCall
    /\ agg = IdleAgg
    /\ spike = IdleSpike
    /\ race = IdleRace

MemSet(key, value) ==
    /\ SetOp(key, value)
    /\ writes' = (writes \ {key}) \cup
                  { k \in DOMAIN lastSet \cup {key} :
                      /\ _get_cache_file(k) \in
                             DOMAIN cache.files \cup {_get_cache_file(key)}
                      /\ _get_cache_file(k) \notin DOMAIN cache'.files }

MemDelete(key) ==
    /\ DeleteOp(key)
    /\ writes' = writes \cup
                  { k \in DOMAIN lastSet :
                      /\ k # key /\ _get_cache_file(k) = _get_cache_file(key)
                      /\ _get_cache_file(k) \in DOMAIN cache.files }

NextMem ==
    \/ \E key \in {KeyA, KeyC} : MemSet(key, ValueOf(key))
    \/ \E key \in {KeyA, KeyC}, ttl \in 0..MaxTTL : Get(key, ttl)
    \/ MemDelete(KeyB)
    \/ Tick

SpecMem == InitMem /\ [][NextMem]_vars

\* the last operation was a get of a key that had been set, found its file
\* gone, removed by _cleanup or by the delete of another key, and the time
\* since the set is less than its ttl
FileLostButFresh ==
    /\ last.op = "get" /\ last.pre # <<>> /\ ~last.hadFile
    /\ last.key \in writes
    /\ last.t - last.pre[1].t < last.ttl

\* C38, as claimed: a key that was set and whose file is gone (evicted by the
\* capacity check or deleted through a key of the same file name) is returned
\* by get(key, ttl) whenever T - stored_at < ttl.
C38_ReturnedWhileFresh ==
    FileLostButFresh => last.ret = last.pre[1].value

\* C38: _cleanup and the delete of a key of the same file name remove files
\* only: every key keeps the memory entry its last set wrote, however many
\* keys there are, until a get of the key finds it expired or the key is
\* deleted or the cache cleared; and a key that was set and whose file is
\* gone is returned by get(key, ttl) when T - stored_at < ttl and the memory
\* entry has not been removed so, and is None when it has.
C38_MemoryAuthoritative ==
    /\ \A key \in DOMAIN lastSet :
          ~lastSet[key].evicted =>
              /\ key \in DOMAIN cache._memory_cache
              /\ cache._memory_cache[key] =
                     [data |-> lastSet[key].value, timestamp |-> lastSet[key].t]
    /\ FileLostButFresh =>
          last.ret = (IF last.pre[1].evicted THEN None ELSE last.pre[1].value)

\* with max_entries = 1 both keys have their memory entries and one file is
\* left; the key whose file is gone was read with ttl 2 one second after it
\* was set and its value returned
C38_Witness ==
    /\ FileLostButFresh /\ ~last.pre[1].evicted
    /\ last.t = last.pre[1].t + 1 /\ last.ttl = 2
    /\ last.ret = last.pre[1].value
    /\ DOMAIN cache._memory_cache = {KeyA, KeyC}
    /\ Cardinality(DOMAIN cache.files) = 1

(***************************************************************************)
(* The history of a keyword, under SpecSpike.  Of the keywords analysed    *)
(* only "a" has a history file before the first frame; what the first call *)
(* for "a" loads is the history recorded for "a" before.                   *)
(***************************************************************************)
\* the samples of the calls 1..j of the frame made for keyword, in call order
RECURSIVE OwnSamples(_, _, _)
OwnSamples(calls, keyword, j) ==
    IF j = 0 THEN <<>>
    ELSE IF calls[j].keyword = keyword
         THEN Append(OwnSamples(calls, keyword, j - 1),
                     Sample(calls[j].count, calls[j].at))
         ELSE OwnSamples(calls, keyword, j - 1)

\* the first call of the frame made for the keyword of call j
FirstFor(j) ==
    CHOOSE i \in 1..j :
        /\ spike.calls[i].keyword = spike.calls[j].keyword
        /\ \A k \in 1..(i - 1) : spike.calls[k].keyword # spike.calls[j].keyword

\* the samples recorded for the keyword of call j before the frame
RecordedBefore(j) ==
    IF spike.calls[j].keyword = <<"a">> THEN spike.calls[FirstFor(j)].loaded
    ELSE <<>>

\* C39: the history a calculate_spike call persists for its keyword is one
\* sample per call made for that keyword within the last 24 hours, in call
\* order (the samples recorded for it before the frame, then those of the
\* frame's calls for it), and holds no sample of a call for another keyword,
\* a keyword of the same sanitized file name included.
C39_PerKeywordHistory ==
    spike.n = 1 =>
        \A j \in DOMAIN spike.calls :
            LET r == spike.calls[j]
            IN  r.history =
                    after(RecordedBefore(j) \o OwnSamples(spike.calls, r.keyword, j),
                          r.at - HISTORY_WINDOW)

\* analyze_keywords(["a b", "a_b"], {}): the history persisted for "a_b" holds
\* two samples after the one call made for it
C39_Mixed ==
    /\ HasCall /\ spike.n = 1 /\ Len(spike.calls) = 2
    /\ LastCall.keyword = <<"a", "_", "b">>
    /\ spike.calls[1].keyword = <<"a", " ", "b">>
    /\ Len(LastCall.history) = 2
    /\ Persisted(LastKey, LastCall.history)

====
